---- MODULE Spec2Model ----
(***************************************************************************)
(* Order lifecycle and payment reconciliation of the R-Talks backend       *)
(* (server.js): order creation inside one store transaction, and the three *)
(* completion channels (manual signature verification, browser redirect,   *)
(* provider webhook) that write the same orders row.                       *)
(*                                                                         *)
(* Node runs a handler without interruption up to its next await, so one   *)
(* action is one such run: the arrival of a request up to its first        *)
(* suspension (or its response), and then one action per awaited store or  *)
(* provider call together with the code that runs when it settles.         *)
(***************************************************************************)
EXTENDS Integers, Sequences, FiniteSets, TLC

\* ---------------------------------------------------------------- bounds
MaxOrders == 2      \* values the orders id sequence may hand out
MaxInFlight == 2    \* requests suspended at an await at the same time

\* ----------------------------------------------------------- value space
NULL == "NULL"                      \* SQL NULL, JS undefined / null
KeySecret == "key_secret"           \* a configured RAZORPAY_KEY_SECRET
OtherKey == "other_key"             \* a key that is not the configured one
KeyIds == {NULL, "your_key_id", "rzp_key"}      \* RAZORPAY_KEY_ID

OrderIdInputs == {ToString(i) : i \in 1..MaxOrders}
PaymentIds == {"pay_a", "pay_b"}
LinkIds == {"plink_1"}

\* the text -> integer conversion the store applies to an id parameter
ParseId(s) == CHOOSE i \in 1..MaxOrders : ToString(i) = s

\* crypto.createHmac('sha256', key).update(data).digest('hex'): the digest is
\* represented by the pair it is a collision-free function of
HMAC(key, data) == <<key, data>>

SignedPayload_PaymentOnly(orderId, paymentId) == "|" \o paymentId

\* `${orderId}|${paymentId}`
SignedPayload(orderId, paymentId) == orderId \o "|" \o paymentId

ExpectedSignature(key, orderId, paymentId) ==
    HMAC(key, SignedPayload(orderId, paymentId))

Signatures ==
    {HMAC(KeySecret, SignedPayload(o, p)) : o \in OrderIdInputs, p \in PaymentIds}
    \cup {HMAC(OtherKey, SignedPayload("1", "pay_a"))}

\* ------------------------------------------------------- order creation
\* request bodies of POST /api/orders: a valid one and one body per
\* violated validation rule; price is counted in hundredths
BodyA == [name |-> "Jane Doe", email |-> "jane@x.com", phone |-> "+919999999999",
          package |-> "Professional", price |-> 29900]
OrderBodies ==
    {BodyA,
     [BodyA EXCEPT !.name = "J"],
     [BodyA EXCEPT !.email = "jane.x.com"],
     [BodyA EXCEPT !.phone = "0123"],
     [BodyA EXCEPT !.package = "Gold"],
     [BodyA EXCEPT !.price = 0]}

\* isEmail() and the phone pattern /^[\+]?[1-9][\d]{0,15}$/ are decided on the
\* sample values above
WellFormedEmails == {"jane@x.com", "al@y.org"}
MatchingPhones == {"+919999999999", "14155550100"}

MinPrice == 1       \* isFloat({ min: 0.01 }), in hundredths

\* validateOrder without its rule for price
ValidationErrors_NoPrice(body) ==
    {f \in {"name", "email", "phone", "package"} :
        \/ f = "name" /\ ~(Len(body.name) >= 2 /\ Len(body.name) <= 100)
        \/ f = "email" /\ body.email \notin WellFormedEmails
        \/ f = "phone" /\ body.phone \notin MatchingPhones
        \/ f = "package" /\ body.package \notin {"Professional", "Executive", "Leadership"}}

\* the failing rules of validateOrder, as errors.array() lists them
ValidationErrors(body) ==
    {f \in {"name", "email", "phone", "package", "price"} :
        \/ f = "name" /\ ~(Len(body.name) >= 2 /\ Len(body.name) <= 100)
        \/ f = "email" /\ body.email \notin WellFormedEmails
        \/ f = "phone" /\ body.phone \notin MatchingPhones
        \/ f = "package" /\ body.package \notin {"Professional", "Executive", "Leadership"}
        \/ f = "price" /\ ~(body.price >= MinPrice)}

NewOrderRow_Completed(body) ==
    [customer_name |-> body.name, customer_email |-> body.email,
     customer_phone |-> body.phone, package_name |-> body.package,
     amount |-> body.price, status |-> "completed", payment_id |-> NULL]

\* the row of INSERT INTO orders (...) VALUES ($1, ..., 'pending')
NewOrderRow(body) ==
    [customer_name |-> body.name, customer_email |-> body.email,
     customer_phone |-> body.phone, package_name |-> body.package,
     amount |-> body.price, status |-> "pending", payment_id |-> NULL]

\* variants of the UPDATE: another status word, no WHERE clause, a guard on the
\* current status, the first payment_id kept
CompleteOrder_Paid(rows, id, paymentId) ==
    [i \in DOMAIN rows |->
        IF i = id THEN [rows[i] EXCEPT !.status = "paid", !.payment_id = paymentId]
        ELSE rows[i]]

CompleteOrder_AllRows(rows, id, paymentId) ==
    [i \in DOMAIN rows |->
        [rows[i] EXCEPT !.status = "completed", !.payment_id = paymentId]]

CompleteOrder_IfPending(rows, id, paymentId) ==
    [i \in DOMAIN rows |->
        IF i = id /\ rows[i].status = "pending"
        THEN [rows[i] EXCEPT !.status = "completed", !.payment_id = paymentId]
        ELSE rows[i]]

CompleteOrder_KeepFirst(rows, id, paymentId) ==
    [i \in DOMAIN rows |->
        IF i = id
        THEN [rows[i] EXCEPT !.status = "completed",
                             !.payment_id = IF rows[i].status = "completed"
                                            THEN rows[i].payment_id ELSE paymentId]
        ELSE rows[i]]

\* the UPDATE also writing the amount column
CompleteOrder_ResetsAmount(rows, id, paymentId) ==
    [i \in DOMAIN rows |->
        IF i = id THEN [rows[i] EXCEPT !.status = "completed", !.payment_id = paymentId,
                                       !.amount = 0]
        ELSE rows[i]]

\* UPDATE orders SET status = 'completed', payment_id = $2 WHERE id = $3
CompleteOrder(rows, id, paymentId) ==
    [i \in DOMAIN rows |->
        IF i = id THEN [rows[i] EXCEPT !.status = "completed", !.payment_id = paymentId]
        ELSE rows[i]]

\* ----------------------------------------------------------------- state
VARIABLES
    pool,           \* "up", or "null" when new Pool(...) threw at start-up
    razorpay,       \* TRUE iff the Razorpay client was constructed
    secret,         \* process.env.RAZORPAY_KEY_SECRET, NULL when unset
    orders,         \* committed rows of the orders table, by id
    orders_id_seq,  \* last value handed out by the SERIAL sequence of orders.id
    checkedOut,     \* clients taken from the pool by pool.connect(), not yet released
    inflight,       \* requests suspended at an await, by slot
    last,           \* the response sent by the latest step, NoResponse if it sent none
    adminPool,      \* the pool of routes/admin.js: "up", or "null" when new Pool(...) threw
    jwtSecret,      \* process.env.JWT_SECRET, NULL when unset
    now,            \* the clock jwt.verify reads
    tables,         \* committed rows of the other tables: by table name, by id
    serial,         \* last value handed out by the SERIAL sequence of each of them
    cookie,         \* the adminToken cookie the administrator's browser holds
    issued,         \* the tokens /login has answered with so far
    connections,    \* open connections to the store, by pool
    startup,        \* where startServer() is, and the pool of initializeDatabase
    hits            \* requests the rate limiter has counted in the window, by address

vars == <<pool, razorpay, secret, orders, orders_id_seq, checkedOut, inflight, last,
          adminPool, jwtSecret, now, tables, serial, cookie, issued, connections, startup, hits>>
config == <<pool, razorpay, secret>>
session == <<cookie, issued>>
runtime == <<connections, startup>>
admin == <<adminPool, jwtSecret, now, tables, serial, session, runtime>>
limiter == <<hits>>     \* the store of app.use(limiter), which runs ahead of every handler

TableNames == {"event_packages", "speakers", "events", "site_content",
               "contact_info", "contact_forms"}
NoRows == [t \in TableNames |-> <<>>]
JwtSecret == "jwt_secret"           \* a configured JWT_SECRET

NoToken == [absent |-> TRUE]         \* req.cookies.adminToken is undefined

\* the pool of server.js, which the public routes use, and the pool of
\* routes/admin.js, which the admin router uses
PoolNames == {"main", "admin"}

\* startServer() has run to app.listen after initializeDatabase resolved
Started == [pc |-> "done", err |-> FALSE, initPool |-> "ended", outcome |-> "resolved",
            listening |-> TRUE]

Addresses == {"10.0.0.1", "10.0.0.2"}        \* req.ip of the clients
NoHits == [a \in Addresses |-> 0]

\* no request has signed in, the pools hold no connection, and the limiter
\* has counted nothing
ProcessInit ==
    /\ hits = NoHits
    /\ cookie = NoToken
    /\ issued = {}
    /\ connections = [p \in PoolNames |-> [open |-> 0, busy |-> 0]]
    /\ startup = Started

\* the admin router and the tables it serves, before any admin request: both
\* pools are built from the same environment
AdminInit ==
    /\ ProcessInit
    /\ adminPool = pool
    /\ jwtSecret = JwtSecret
    /\ now = 0
    /\ tables = NoRows
    /\ serial = [t \in TableNames |-> 0]

Slots == DOMAIN inflight
Idle == [route |-> "idle"]
NoResponse == [route |-> "none"]
NoRow == [absent |-> TRUE]

FreeSlot == CHOOSE i \in Slots : inflight[i] = Idle /\ \A j \in 1..(i-1) : inflight[j] # Idle
HasFreeSlot == \E i \in Slots : inflight[i] = Idle

Suspend(r) == inflight' = [inflight EXCEPT ![FreeSlot] = r]
Resume(i, r) == inflight' = [inflight EXCEPT ![i] = r]
Finish(i) == inflight' = [inflight EXCEPT ![i] = Idle]

\* no turn of the event loop is under way
Ready == last = NoResponse

\* res.status(status).json(body) or res.redirect(...) on the normal path
Respond(route, req, status, body) ==
    last' = [route |-> route, req |-> req, status |-> status, body |-> body,
             caught |-> FALSE]

\* the same from a catch block, which has logged the error it caught
RespondCaught(route, req, status, body) ==
    last' = [route |-> route, req |-> req, status |-> status, body |-> body,
             caught |-> TRUE]

\* the condition under which new Razorpay({...}) is constructed
RazorpayClient(keyId, keySecret) ==
    /\ keyId # NULL /\ keySecret # NULL
    /\ keyId # "your_key_id" /\ keySecret # "your_key_secret"

\* the state after start-up with RAZORPAY_KEY_SECRET drawn from keySecrets;
\* the Razorpay constructor may throw, which leaves razorpay null
InitWith(keySecrets) ==
    /\ pool \in {"up", "null"}
    /\ secret \in keySecrets
    /\ \E keyId \in KeyIds : razorpay \in {RazorpayClient(keyId, secret), FALSE}
    /\ orders = <<>>
    /\ orders_id_seq = Cardinality(DOMAIN orders)
    /\ checkedOut = 0
    /\ inflight = [i \in 1..MaxInFlight |-> Idle]
    /\ last = NoResponse
    /\ AdminInit

Init == InitWith({NULL, KeySecret})

\* ------------------------------------------------ POST /api/orders
\* creations that have not reached their INSERT yet
PendingInserts ==
    Cardinality({i \in Slots : inflight[i].route = "orders"
                               /\ inflight[i].pc \in {"connect", "BEGIN", "INSERT"}})

\* arrival: checkDbConnection, validateOrder, up to await pool.connect()
CreateOrder(body) ==
    /\ Ready
    /\ \/ /\ pool = "null"
          /\ Respond("orders", body, 503, [code |-> "DB_CONNECTION_ERROR"])
          /\ UNCHANGED inflight
       \/ /\ pool = "up"
          /\ ValidationErrors(body) # {}
          /\ Respond("orders", body, 400,
                     [code |-> "VALIDATION_ERROR", details |-> ValidationErrors(body)])
          /\ UNCHANGED inflight
       \/ /\ pool = "up"
          /\ ValidationErrors(body) = {}
          /\ HasFreeSlot
          /\ orders_id_seq + PendingInserts < MaxOrders
          /\ Suspend([route |-> "orders", pc |-> "connect", req |-> body, id |-> 0,
                      row |-> NoRow, tx |-> "none", paymentLink |-> NULL,
                      razorpayOrderId |-> NULL, err |-> NULL])
          /\ last' = NoResponse
    /\ UNCHANGED <<config, admin, orders, orders_id_seq, checkedOut>>

At(i, route, pc) == Ready /\ inflight[i].route = route /\ inflight[i].pc = pc

\* the handler without its finally block
OrderCreationError_NoRelease(i, code, hasClient) ==
    /\ RespondCaught("orders", inflight[i].req, IF code = "23505" THEN 409 ELSE 500,
               [code |-> IF code = "23505" THEN "DUPLICATE_ORDER_ERROR"
                                           ELSE "ORDER_CREATION_ERROR"])
    /\ checkedOut' = checkedOut
    /\ Finish(i)

\* the outer catch and finally of the handler: 409 for a unique violation,
\* else 500; the client is released when it was obtained
OrderCreationError(i, code, hasClient) ==
    /\ RespondCaught("orders", inflight[i].req, IF code = "23505" THEN 409 ELSE 500,
               [code |-> IF code = "23505" THEN "DUPLICATE_ORDER_ERROR"
                                           ELSE "ORDER_CREATION_ERROR"])
    /\ checkedOut' = IF hasClient THEN checkedOut - 1 ELSE checkedOut
    /\ Finish(i)

\* client = await pool.connect()
Connect(i) ==
    /\ At(i, "orders", "connect")
    /\ \/ /\ Resume(i, [inflight[i] EXCEPT !.pc = "BEGIN"])
          /\ checkedOut' = checkedOut + 1
          /\ last' = NoResponse
       \/ OrderCreationError(i, "other", FALSE)
    /\ UNCHANGED <<config, admin, orders, orders_id_seq>>

\* await client.query('BEGIN')
Begin(i) ==
    /\ At(i, "orders", "BEGIN")
    /\ \/ Resume(i, [inflight[i] EXCEPT !.pc = "INSERT", !.tx = "open"])
       \/ Resume(i, [inflight[i] EXCEPT !.pc = "ROLLBACK", !.err = "other"])
    /\ last' = NoResponse
    /\ UNCHANGED <<config, admin, orders, orders_id_seq, checkedOut>>

\* the INSERT run outside a transaction: the row is visible at once
Insert_Autocommit(i) ==
    /\ At(i, "orders", "INSERT")
    /\ \/ /\ orders_id_seq' = orders_id_seq + 1
          /\ orders' = ((orders_id_seq + 1) :> NewOrderRow(inflight[i].req)) @@ orders
          /\ Resume(i, [inflight[i] EXCEPT
                          !.pc = IF razorpay THEN "paymentLink" ELSE "COMMIT",
                          !.id = orders_id_seq + 1,
                          !.row = NewOrderRow(inflight[i].req)])
       \/ /\ \E code \in {"23505", "other"} :
                Resume(i, [inflight[i] EXCEPT !.pc = "ROLLBACK", !.tx = "aborted",
                                              !.err = code])
          /\ UNCHANGED <<orders_id_seq, orders>>
    /\ last' = NoResponse
    /\ UNCHANGED <<config, admin, checkedOut>>

\* the handler calling the provider without testing `if (razorpay)`
Insert_AlwaysCallsProvider(i) ==
    /\ At(i, "orders", "INSERT")
    /\ \/ /\ orders_id_seq' = orders_id_seq + 1
          /\ Resume(i, [inflight[i] EXCEPT !.pc = "paymentLink",
                                           !.id = orders_id_seq + 1,
                                           !.row = NewOrderRow(inflight[i].req)])
       \/ /\ \E code \in {"23505", "other"} :
                Resume(i, [inflight[i] EXCEPT !.pc = "ROLLBACK", !.tx = "aborted",
                                              !.err = code])
          /\ UNCHANGED orders_id_seq
    /\ last' = NoResponse
    /\ UNCHANGED <<config, admin, orders, checkedOut>>

\* await client.query('INSERT INTO orders ... RETURNING id'); the new row
\* stays private to the transaction until COMMIT
Insert(i) ==
    /\ At(i, "orders", "INSERT")
    /\ \/ /\ orders_id_seq' = orders_id_seq + 1
          /\ Resume(i, [inflight[i] EXCEPT
                          !.pc = IF razorpay THEN "paymentLink" ELSE "COMMIT",
                          !.id = orders_id_seq + 1,
                          !.row = NewOrderRow(inflight[i].req)])
       \/ /\ \E code \in {"23505", "other"} :
                Resume(i, [inflight[i] EXCEPT !.pc = "ROLLBACK", !.tx = "aborted",
                                              !.err = code])
          /\ UNCHANGED orders_id_seq
    /\ last' = NoResponse
    /\ UNCHANGED <<config, admin, orders, checkedOut>>

\* the handler without catch (razorpayError): a rejection reaches the ROLLBACK
PaymentLinkCreate_Rethrows(i) ==
    /\ At(i, "orders", "paymentLink")
    /\ \/ \E l \in LinkIds :
            Resume(i, [inflight[i] EXCEPT !.pc = "UPDATE", !.paymentLink = "short_url",
                                          !.razorpayOrderId = l])
       \/ Resume(i, [inflight[i] EXCEPT !.pc = "ROLLBACK", !.err = "other"])
    /\ last' = NoResponse
    /\ UNCHANGED <<config, admin, orders, orders_id_seq, checkedOut>>

\* await razorpay.paymentLink.create(paymentLinkData); a rejection is caught
\* by catch (razorpayError) and the handler goes on to COMMIT
PaymentLinkCreate(i) ==
    /\ At(i, "orders", "paymentLink")
    /\ \/ \E l \in LinkIds :
            Resume(i, [inflight[i] EXCEPT !.pc = "UPDATE", !.paymentLink = "short_url",
                                          !.razorpayOrderId = l])
       \/ Resume(i, [inflight[i] EXCEPT !.pc = "COMMIT"])
    /\ last' = NoResponse
    /\ UNCHANGED <<config, admin, orders, orders_id_seq, checkedOut>>

\* await client.query('UPDATE orders SET payment_id = $1 WHERE id = $2');
\* a failure is caught by the same catch (razorpayError), and the store has
\* put the transaction in the aborted state
UpdatePaymentId(i) ==
    /\ At(i, "orders", "UPDATE")
    /\ \/ Resume(i, [inflight[i] EXCEPT !.pc = "COMMIT",
                        !.row = [inflight[i].row EXCEPT
                                    !.payment_id = inflight[i].razorpayOrderId]])
       \/ Resume(i, [inflight[i] EXCEPT !.pc = "COMMIT", !.tx = "aborted"])
    /\ last' = NoResponse
    /\ UNCHANGED <<config, admin, orders, orders_id_seq, checkedOut>>

\* await client.query('COMMIT'), res.json({...}), finally client.release();
\* COMMIT of an aborted transaction succeeds as a rollback
Commit(i) ==
    /\ At(i, "orders", "COMMIT")
    /\ \/ /\ orders' = IF inflight[i].tx = "open"
                       THEN (inflight[i].id :> inflight[i].row) @@ orders
                       ELSE orders
          /\ Respond("orders", inflight[i].req, 200,
                     [orderId |-> inflight[i].id,
                      paymentLink |-> inflight[i].paymentLink,
                      razorpayOrderId |-> inflight[i].razorpayOrderId,
                      amount |-> inflight[i].req.price,
                      testMode |-> ~razorpay])
          /\ checkedOut' = checkedOut - 1
          /\ Finish(i)
       \/ /\ Resume(i, [inflight[i] EXCEPT !.pc = "ROLLBACK", !.tx = "aborted",
                                           !.err = "other"])
          /\ last' = NoResponse
          /\ UNCHANGED <<orders, checkedOut>>
    /\ UNCHANGED <<config, admin, orders_id_seq>>

\* catch (err) { await client.query('ROLLBACK'); throw err; }: a failing
\* ROLLBACK throws its own error instead
Rollback(i) ==
    /\ At(i, "orders", "ROLLBACK")
    /\ \/ OrderCreationError(i, inflight[i].err, TRUE)
       \/ OrderCreationError(i, "other", TRUE)
    /\ UNCHANGED <<config, admin, orders, orders_id_seq>>

\* ------------------------------------------ POST /api/verify-payment
VerifyInputs == [orderId : OrderIdInputs, paymentId : PaymentIds, signature : Signatures]

\* a completion request suspended at its await pool.query('UPDATE orders ...')
AwaitUpdate(route, req, paymentId, orderId) ==
    Suspend([route |-> route, pc |-> "query", req |-> req,
             params |-> [payment_id |-> paymentId, id |-> orderId]])

\* the handler without the comparison of the two signatures
VerifyPayment_NoCheck(req) ==
    /\ Ready
    /\ pool = "up" /\ secret # NULL
    /\ HasFreeSlot
    /\ AwaitUpdate("verify", req, req.paymentId, req.orderId)
    /\ last' = NoResponse
    /\ UNCHANGED <<config, admin, orders, orders_id_seq, checkedOut>>

\* arrival: checkDbConnection, the HMAC and the comparison
VerifyPayment(req) ==
    /\ Ready
    /\ \/ /\ pool = "null"
          /\ Respond("verify", req, 503, [error |-> "Database connection not available"])
          /\ UNCHANGED inflight
       \/ /\ pool = "up"
          /\ secret = NULL          \* createHmac throws on an undefined key
          /\ RespondCaught("verify", req, 500, [error |-> "Internal server error"])
          /\ UNCHANGED inflight
       \/ /\ pool = "up"
          /\ secret # NULL
          /\ ExpectedSignature(secret, req.orderId, req.paymentId) # req.signature
          /\ Respond("verify", req, 400, [error |-> "Invalid signature"])
          /\ UNCHANGED inflight
       \/ /\ pool = "up"
          /\ secret # NULL
          /\ ExpectedSignature(secret, req.orderId, req.paymentId) = req.signature
          /\ HasFreeSlot
          /\ AwaitUpdate("verify", req, req.paymentId, req.orderId)
          /\ last' = NoResponse
    /\ UNCHANGED <<config, admin, orders, orders_id_seq, checkedOut>>

\* the store runs the UPDATE of slot i, or the query rejects
RunUpdate(i, ok) ==
    /\ orders' = IF ok THEN CompleteOrder(orders, ParseId(inflight[i].params.id),
                                          inflight[i].params.payment_id)
                 ELSE orders
    /\ Finish(i)
    /\ UNCHANGED <<config, admin, orders_id_seq, checkedOut>>

\* the await of /api/verify-payment settles
VerifyPaymentQuery(i) ==
    /\ At(i, "verify", "query")
    /\ \/ /\ RunUpdate(i, TRUE)
          /\ Respond("verify", inflight[i].req, 200, [success |-> TRUE])
       \/ /\ RunUpdate(i, FALSE)
          /\ RespondCaught("verify", inflight[i].req, 500, [error |-> "Internal server error"])

\* ------------------------------------------- GET /api/payment-success
SuccessQueries ==
    [order_id : OrderIdInputs \cup {NULL},
     razorpay_payment_id : {NULL, "pay_a"},
     razorpay_payment_link_id : {NULL} \cup LinkIds,
     razorpay_payment_link_status : {"paid"}]
    \cup [order_id : OrderIdInputs \cup {NULL},
          razorpay_payment_id : {"pay_a"},
          razorpay_payment_link_id : LinkIds,
          razorpay_payment_link_status : {"cancelled"}]

\* a || b on request values: an absent value is falsy
Or(a, b) == IF a # NULL THEN a ELSE b

\* res.redirect(`${frontendUrl}/?payment=${flag}&order=${order_id}`)
Redirect(q, flag) ==
    Respond("payment-success", q, 302, [payment |-> flag, order |-> q.order_id])

RedirectCaught(q, flag) ==
    RespondCaught("payment-success", q, 302, [payment |-> flag, order |-> q.order_id])

\* the handler testing order_id only, not the reported link status
PaymentSuccess_AnyStatus(q) ==
    /\ Ready
    /\ \/ /\ q.order_id = NULL
          /\ Redirect(q, "failed")
          /\ UNCHANGED inflight
       \/ /\ q.order_id # NULL
          /\ pool = "up"
          /\ HasFreeSlot
          /\ AwaitUpdate("payment-success", q,
                         Or(q.razorpay_payment_id, q.razorpay_payment_link_id), q.order_id)
          /\ last' = NoResponse
    /\ UNCHANGED <<config, admin, orders, orders_id_seq, checkedOut>>

\* arrival: no checkDbConnection on this route; pool.query on a null pool
\* throws inside the try
PaymentSuccess(q) ==
    /\ Ready
    /\ \/ /\ ~(q.razorpay_payment_link_status = "paid" /\ q.order_id # NULL)
          /\ Redirect(q, "failed")
          /\ UNCHANGED inflight
       \/ /\ q.razorpay_payment_link_status = "paid" /\ q.order_id # NULL
          /\ pool = "null"
          /\ RedirectCaught(q, "error")
          /\ UNCHANGED inflight
       \/ /\ q.razorpay_payment_link_status = "paid" /\ q.order_id # NULL
          /\ pool = "up"
          /\ HasFreeSlot
          /\ AwaitUpdate("payment-success", q,
                         Or(q.razorpay_payment_id, q.razorpay_payment_link_id), q.order_id)
          /\ last' = NoResponse
    /\ UNCHANGED <<config, admin, orders, orders_id_seq, checkedOut>>

\* the catch block answering with a JSON 500 instead of the redirect
PaymentSuccessQuery_Json(i) ==
    /\ At(i, "payment-success", "query")
    /\ \/ /\ RunUpdate(i, TRUE)
          /\ Redirect(inflight[i].req, "success")
       \/ /\ RunUpdate(i, FALSE)
          /\ RespondCaught("payment-success", inflight[i].req, 500,
                           [payment |-> "error", order |-> inflight[i].req.order_id])

\* the await of /api/payment-success settles
PaymentSuccessQuery(i) ==
    /\ At(i, "payment-success", "query")
    /\ \/ /\ RunUpdate(i, TRUE)
          /\ Redirect(inflight[i].req, "success")
       \/ /\ RunUpdate(i, FALSE)
          /\ RedirectCaught(inflight[i].req, "error")

\* ------------------------------------------ POST /api/razorpay-webhook
\* bodies {event, payload: {payment_link: {notes: {order_id}}, payment: {id}}};
\* has_x tells whether object x is there at all
WebhookBody(event, hasPayload, hasLink, hasNotes, orderId, hasPayment, paymentId) ==
    [event |-> event, has_payload |-> hasPayload, has_payment_link |-> hasLink,
     has_notes |-> hasNotes, order_id |-> orderId, has_payment |-> hasPayment,
     payment_id |-> paymentId]

WebhookBodies ==
    {WebhookBody("payment_link.paid", TRUE, TRUE, TRUE, o, TRUE, p) :
         o \in OrderIdInputs \cup {NULL}, p \in {NULL, "pay_b"}}
    \cup {WebhookBody("payment_link.paid", TRUE, TRUE, TRUE, o, FALSE, NULL) :
         o \in {"1", NULL}}
    \cup {WebhookBody("payment_link.paid", TRUE, TRUE, FALSE, NULL, TRUE, "pay_b"),
          WebhookBody("payment_link.paid", TRUE, FALSE, FALSE, NULL, TRUE, "pay_b"),
          WebhookBody("payment_link.paid", FALSE, FALSE, FALSE, NULL, FALSE, NULL),
          WebhookBody("payment.captured", TRUE, TRUE, TRUE, "1", TRUE, "pay_b"),
          WebhookBody("payment.captured", FALSE, FALSE, FALSE, NULL, FALSE, NULL)}

\* payment_link.notes?.order_id
NotesOrderId(b) == IF b.has_notes THEN b.order_id ELSE NULL

\* the synchronous part of the try block throws: destructuring an absent
\* payload, reading notes of an absent payment_link, reading id of an absent
\* payment, or calling query on a null pool
WebhookThrows(b) ==
    /\ b.event = "payment_link.paid"
    /\ \/ ~b.has_payload
       \/ ~b.has_payment_link
       \/ /\ NotesOrderId(b) # NULL
          /\ (~b.has_payment \/ pool = "null")

WebhookUpdates(b) ==
    /\ b.event = "payment_link.paid"
    /\ b.has_payload /\ b.has_payment_link
    /\ NotesOrderId(b) # NULL

RazorpayWebhook(b) ==
    /\ Ready
    /\ \/ /\ WebhookThrows(b)
          /\ RespondCaught("webhook", b, 500, [error |-> "Webhook processing failed"])
          /\ UNCHANGED inflight
       \/ /\ ~WebhookThrows(b)
          /\ ~WebhookUpdates(b)
          /\ Respond("webhook", b, 200, [status |-> "ok"])
          /\ UNCHANGED inflight
       \/ /\ ~WebhookThrows(b)
          /\ WebhookUpdates(b)
          /\ HasFreeSlot
          /\ AwaitUpdate("webhook", b, b.payment_id, NotesOrderId(b))
          /\ last' = NoResponse
    /\ UNCHANGED <<config, admin, orders, orders_id_seq, checkedOut>>

\* the handler answering 404 when its UPDATE matched no row
WebhookQuery_NotFound(i) ==
    /\ At(i, "webhook", "query")
    /\ \/ /\ RunUpdate(i, TRUE)
          /\ IF ParseId(inflight[i].params.id) \in DOMAIN orders
             THEN Respond("webhook", inflight[i].req, 200, [status |-> "ok"])
             ELSE Respond("webhook", inflight[i].req, 404, [status |-> "not found"])
       \/ /\ RunUpdate(i, FALSE)
          /\ RespondCaught("webhook", inflight[i].req, 500, [error |-> "Webhook processing failed"])

\* the await of /api/razorpay-webhook settles
WebhookQuery(i) ==
    /\ At(i, "webhook", "query")
    /\ \/ /\ RunUpdate(i, TRUE)
          /\ Respond("webhook", inflight[i].req, 200, [status |-> "ok"])
       \/ /\ RunUpdate(i, FALSE)
          /\ RespondCaught("webhook", inflight[i].req, 500, [error |-> "Webhook processing failed"])

\* ------------------------------------- routes/admin.js: the token gate
MaxTime == 1        \* clock values the model lets pass
MaxRows == 2        \* values each catalogue id sequence may hand out

\* the adminToken cookie: absent, or a token signed with some key that
\* expires at exp
Tokens ==
    {NoToken} \cup [adminId : {1}, key : {JwtSecret, "forged_key"}, exp : 1..(MaxTime + 1)]

\* jwt.verify(token, process.env.JWT_SECRET) returns: the signature was made
\* with the secret and the clock has not reached exp
JwtVerifies(token) ==
    /\ jwtSecret # NULL
    /\ token.key = jwtSecret
    /\ now < token.exp

\* verifyAdminToken calls next()
Authenticated(token) == token # NoToken /\ JwtVerifies(token)

GateStatus_NoExpiry(token) ==
    IF token = NoToken \/ jwtSecret = NULL \/ token.key # jwtSecret THEN 401
    ELSE IF adminPool = "null" THEN 503
    ELSE 200

\* verifyAdminToken, then checkDbConnection: the status they answer with,
\* 200 when both call next()
GateStatus(token) ==
    IF ~Authenticated(token) THEN 401
    ELSE IF adminPool = "null" THEN 503
    ELSE 200

GateError(token) ==
    IF token = NoToken THEN [error |-> "No token provided"]
    ELSE IF ~Authenticated(token) THEN [error |-> "Invalid token"]
    ELSE [error |-> "Database connection not available"]

\* what an admin step leaves alone besides the tables it writes
AdminFrame ==
    UNCHANGED <<config, orders, orders_id_seq, checkedOut, adminPool, jwtSecret, now,
                session, runtime>>

\* a handler with one awaited query: the gate, then the query, which the
\* store runs (when `ok`, giving tables `after`) or rejects
AdminQuery(route, req, ok, after, body) ==
    /\ Ready
    /\ \/ /\ GateStatus(req.token) # 200
          /\ Respond(route, req, GateStatus(req.token), GateError(req.token))
          /\ tables' = tables
       \/ /\ GateStatus(req.token) = 200
          /\ ok
          /\ tables' = after
          /\ Respond(route, req, 200, body)
       \/ /\ GateStatus(req.token) = 200
          /\ tables' = tables
          /\ RespondCaught(route, req, 500, [error |-> "Internal server error"])
    /\ UNCHANGED <<inflight, serial>>
    /\ AdminFrame

\* ---------------------------------------- packages and speakers
Kinds == {"event_packages", "speakers"}
Profiles == {"p1", "p2"}        \* the five profile fields of a create or update body
DisplayOrders == {1, 2}         \* req.body.display_order
RowIdInputs == {ToString(i) : i \in 1..MaxRows} \cup {"abc"}    \* req.params.id

\* the text -> integer conversion of an id parameter; the store rejects a
\* text that is no integer
IsRowId(s) == \E i \in 1..MaxRows : ToString(i) = s
ParseRowId(s) == CHOOSE i \in 1..MaxRows : ToString(i) = s

Max(S) == CHOOSE m \in S : \A x \in S : x <= m

\* SELECT COALESCE(MAX(display_order), 0) + 1 as next_order FROM <table>
NextOrder(rows) ==
    IF DOMAIN rows = {} THEN 1
    ELSE Max({rows[i].display_order : i \in DOMAIN rows}) + 1

\* INSERT INTO <table> (..., display_order) VALUES (..., $6); is_active
\* takes its default
InsertRow(rows, id, profile, order) ==
    (id :> [profile |-> profile, display_order |-> order, is_active |-> TRUE]) @@ rows

UpdateRow_Reactivates(rows, id, profile) ==
    [i \in DOMAIN rows |->
        IF i = id THEN [rows[i] EXCEPT !.profile = profile, !.is_active = TRUE]
        ELSE rows[i]]

\* UPDATE <table> SET name = $1, ... WHERE id = $6
UpdateRow(rows, id, profile) ==
    [i \in DOMAIN rows |-> IF i = id THEN [rows[i] EXCEPT !.profile = profile] ELSE rows[i]]

SoftDelete_Remove(rows, id) ==
    [i \in DOMAIN rows \ {id} |-> rows[i]]

\* UPDATE <table> SET is_active = false WHERE id = $1
SoftDelete(rows, id) ==
    [i \in DOMAIN rows |-> IF i = id THEN [rows[i] EXCEPT !.is_active = FALSE] ELSE rows[i]]

\* UPDATE <table> SET display_order = $1 WHERE id = $2
Reorder(rows, id, order) ==
    [i \in DOMAIN rows |-> IF i = id THEN [rows[i] EXCEPT !.display_order = order] ELSE rows[i]]

\* a row as SELECT * returns it
Selected(rows, i) ==
    [id |-> i, profile |-> rows[i].profile, display_order |-> rows[i].display_order,
     is_active |-> rows[i].is_active]

\* ORDER BY display_order, id
Before(a, b) ==
    \/ a.display_order < b.display_order
    \/ a.display_order = b.display_order /\ a.id < b.id

RECURSIVE OrderBy(_)
OrderBy(S) ==
    IF S = {} THEN <<>>
    ELSE LET first == CHOOSE r \in S : \A q \in S \ {r} : Before(r, q)
         IN  <<first>> \o OrderBy(S \ {first})

ListActive_TiesDescending(rows) ==
    LET S == {Selected(rows, i) : i \in {j \in DOMAIN rows : rows[j].is_active}}
        RECURSIVE Sorted(_)
        Sorted(T) ==
            IF T = {} THEN <<>>
            ELSE LET first == CHOOSE r \in T : \A q \in T \ {r} :
                                 \/ r.display_order < q.display_order
                                 \/ r.display_order = q.display_order /\ r.id > q.id
                 IN  <<first>> \o Sorted(T \ {first})
    IN  Sorted(S)

\* SELECT * FROM <table> WHERE is_active = true ORDER BY display_order, id
ListActive(rows) ==
    OrderBy({Selected(rows, i) : i \in {j \in DOMAIN rows : rows[j].is_active}})

\* GET /api/packages and GET /api/speakers of server.js: checkDbConnection
\* on the server's own pool, no token
PublicList(route, kind) ==
    /\ Ready
    /\ \/ /\ pool = "null"
          /\ Respond(route, [token |-> NoToken], 503, [code |-> "DB_CONNECTION_ERROR"])
       \/ /\ pool = "up"
          /\ Respond(route, [token |-> NoToken], 200, ListActive(tables[kind]))
       \/ /\ pool = "up"
          /\ RespondCaught(route, [token |-> NoToken], 500, [error |-> "Internal server error"])
    /\ UNCHANGED <<inflight, tables, serial>>
    /\ AdminFrame

GetPackages == PublicList("GET /api/packages", "event_packages")
GetSpeakers == PublicList("GET /api/speakers", "speakers")

AdminList(route, kind, req) ==
    AdminQuery(route, req, TRUE, tables, ListActive(tables[kind]))

GetAdminPackages(req) == AdminList("GET /api/admin/packages", "event_packages", req)
GetAdminSpeakers(req) == AdminList("GET /api/admin/speakers", "speakers", req)

\* creations that have read next_order and not inserted yet
PendingCreates(kind) ==
    Cardinality({i \in Slots : inflight[i].route = "create" /\ inflight[i].kind = kind})

\* POST /api/admin/<kind>: the gate and the SELECT of next_order, up to the
\* await of the INSERT
CreateItem(name, kind, req) ==
    /\ Ready
    /\ \/ /\ GateStatus(req.token) # 200
          /\ Respond(name, req, GateStatus(req.token), GateError(req.token))
          /\ UNCHANGED inflight
       \/ /\ GateStatus(req.token) = 200
          /\ HasFreeSlot
          /\ serial[kind] + PendingCreates(kind) < MaxRows
          /\ Suspend([route |-> "create", name |-> name, kind |-> kind, pc |-> "INSERT",
                      req |-> req, nextOrder |-> NextOrder(tables[kind])])
          /\ last' = NoResponse
       \/ /\ GateStatus(req.token) = 200
          /\ RespondCaught(name, req, 500, [error |-> "Internal server error"])
          /\ UNCHANGED inflight
    /\ UNCHANGED <<tables, serial>>
    /\ AdminFrame

CreatePackage(req) == CreateItem("POST /api/admin/packages", "event_packages", req)
CreateSpeaker(req) == CreateItem("POST /api/admin/speakers", "speakers", req)

\* the INSERT ... RETURNING * of a creation settles; res.json(result.rows[0])
InsertItem(i, kind) ==
    /\ Ready
    /\ inflight[i].route = "create" /\ inflight[i].kind = kind
    /\ \/ /\ serial' = [serial EXCEPT ![kind] = @ + 1]
          /\ tables' = [tables EXCEPT ![kind] =
                           InsertRow(@, serial[kind] + 1, inflight[i].req.profile,
                                     inflight[i].nextOrder)]
          /\ Respond(inflight[i].name, inflight[i].req, 200,
                     [id |-> serial[kind] + 1, profile |-> inflight[i].req.profile,
                      display_order |-> inflight[i].nextOrder, is_active |-> TRUE])
       \/ /\ UNCHANGED <<tables, serial>>
          /\ RespondCaught(inflight[i].name, inflight[i].req, 500,
                           [error |-> "Internal server error"])
    /\ Finish(i)
    /\ AdminFrame

InsertPackage(i) == InsertItem(i, "event_packages")
InsertSpeaker(i) == InsertItem(i, "speakers")

UpdateItem(name, kind, req) ==
    AdminQuery(name, req, IsRowId(req.id),
               [tables EXCEPT ![kind] = UpdateRow(@, ParseRowId(req.id), req.profile)],
               [success |-> TRUE])

UpdatePackage(req) == UpdateItem("PUT /api/admin/packages/:id", "event_packages", req)
UpdateSpeaker(req) == UpdateItem("PUT /api/admin/speakers/:id", "speakers", req)

DeleteItem(name, kind, req) ==
    AdminQuery(name, req, IsRowId(req.id),
               [tables EXCEPT ![kind] = SoftDelete(@, ParseRowId(req.id))],
               [success |-> TRUE])

DeletePackage(req) == DeleteItem("DELETE /api/admin/packages/:id", "event_packages", req)
DeleteSpeaker(req) == DeleteItem("DELETE /api/admin/speakers/:id", "speakers", req)

ReorderItem(name, kind, req) ==
    AdminQuery(name, req, IsRowId(req.id),
               [tables EXCEPT ![kind] = Reorder(@, ParseRowId(req.id), req.display_order)],
               [success |-> TRUE])

ReorderPackage(req) == ReorderItem("PUT /api/admin/packages/:id/order", "event_packages", req)
ReorderSpeaker(req) == ReorderItem("PUT /api/admin/speakers/:id/order", "speakers", req)

\* -------------------------------------------- the other admin routes
\* GET /api/admin/check-auth: verifyAdminToken alone
CheckAuth(req) ==
    /\ Ready
    /\ IF Authenticated(req.token)
       THEN Respond("GET /api/admin/check-auth", req, 200, [authenticated |-> TRUE])
       ELSE Respond("GET /api/admin/check-auth", req, 401, GateError(req.token))
    /\ UNCHANGED <<inflight, tables, serial>>
    /\ AdminFrame

\* ------------------------------------- POST /api/admin/login and /logout
TokenLife == 1      \* expiresIn: '24h', in units of the clock

\* the admins table: the row initDb.js seeds; no route writes the table
Admins == (1 :> [email |-> "admin@rtalks.com", password |-> "admin123"])
Credentials == [email : {"admin@rtalks.com", "eve@x.com"}, password : {"admin123", "guess"}]

\* SELECT * FROM admins WHERE email = $1, then bcrypt.compare
Matching(req) ==
    {a \in DOMAIN Admins : Admins[a].email = req.email /\ Admins[a].password = req.password}

\* jwt.sign({ adminId }, process.env.JWT_SECRET, { expiresIn: '24h' })
Sign(adminId) == [adminId |-> adminId, key |-> jwtSecret, exp |-> now + TokenLife]

\* a logout that would revoke what was issued, by replacing the signing secret
Logout_RotatesSecret ==
    /\ Ready
    /\ cookie' = NoToken
    /\ jwtSecret' = "rotated"
    /\ Respond("POST /api/admin/logout", [token |-> cookie], 200, [success |-> TRUE])
    /\ UNCHANGED <<config, orders, orders_id_seq, checkedOut, inflight, adminPool, now,
                   tables, serial, issued, runtime>>

\* res.clearCookie('adminToken'); res.json({ success: true }): no gate, no
\* query
Logout ==
    /\ Ready
    /\ cookie' = NoToken
    /\ Respond("POST /api/admin/logout", [token |-> cookie], 200, [success |-> TRUE])
    /\ UNCHANGED <<config, orders, orders_id_seq, checkedOut, inflight, adminPool, jwtSecret,
                   now, tables, serial, issued, runtime>>

\* checkDbConnection, the lookup, the comparison and the signature; the
\* browser stores the cookie of a 200
Login(req) ==
    /\ Ready
    /\ \/ /\ adminPool = "null"
          /\ Respond("POST /api/admin/login", req, 503,
                     [error |-> "Database connection not available"])
          /\ UNCHANGED session
       \/ /\ adminPool = "up"
          /\ RespondCaught("POST /api/admin/login", req, 500,
                           [error |-> "Internal server error"])      \* the query rejects
          /\ UNCHANGED session
       \/ /\ adminPool = "up"
          /\ Matching(req) = {}
          /\ Respond("POST /api/admin/login", req, 401, [error |-> "Invalid credentials"])
          /\ UNCHANGED session
       \/ /\ adminPool = "up"
          /\ Matching(req) # {}
          /\ jwtSecret = NULL       \* jwt.sign throws without a secret
          /\ RespondCaught("POST /api/admin/login", req, 500,
                           [error |-> "Internal server error"])
          /\ UNCHANGED session
       \/ /\ adminPool = "up"
          /\ jwtSecret # NULL
          /\ \E a \in Matching(req) :
                /\ cookie' = Sign(a)
                /\ issued' = issued \cup {Sign(a)}
                /\ Respond("POST /api/admin/login", req, 200,
                           [success |-> TRUE, token |-> Sign(a)])
    /\ UNCHANGED <<config, orders, orders_id_seq, checkedOut, inflight, adminPool, jwtSecret,
                   now, tables, serial, runtime>>

Completed == {id \in DOMAIN orders : orders[id].status = "completed"}

RECURSIVE SumAmount(_)
SumAmount(ids) ==
    IF ids = {} THEN 0
    ELSE LET id == CHOOSE x \in ids : TRUE
         IN  orders[id].amount + SumAmount(ids \ {id})

\* GET /api/admin/stats: the gate and the first SELECT, up to the await of
\* the second
GetStats(req) ==
    /\ Ready
    /\ \/ /\ GateStatus(req.token) # 200
          /\ Respond("GET /api/admin/stats", req, GateStatus(req.token), GateError(req.token))
          /\ UNCHANGED inflight
       \/ /\ GateStatus(req.token) = 200
          /\ HasFreeSlot
          /\ Suspend([route |-> "stats", req |-> req,
                      totalStats |-> [total_tickets |-> Cardinality(Completed),
                                      total_revenue |-> SumAmount(Completed)]])
          /\ last' = NoResponse
       \/ /\ GateStatus(req.token) = 200
          /\ RespondCaught("GET /api/admin/stats", req, 500, [error |-> "Internal server error"])
          /\ UNCHANGED inflight
    /\ UNCHANGED <<tables, serial>>
    /\ AdminFrame

\* the second SELECT of the stats settles: the completed orders created
\* today, some of the completed orders (order rows carry no created_at here)
GetStatsQuery(i) ==
    /\ Ready
    /\ inflight[i].route = "stats"
    /\ \/ \E today \in SUBSET Completed :
             Respond("GET /api/admin/stats", inflight[i].req, 200,
                     [totalTickets |-> inflight[i].totalStats.total_tickets,
                      totalRevenue |-> inflight[i].totalStats.total_revenue,
                      todaySales |-> Cardinality(today)])
       \/ RespondCaught("GET /api/admin/stats", inflight[i].req, 500,
                        [error |-> "Internal server error"])
    /\ Finish(i)
    /\ UNCHANGED <<tables, serial>>
    /\ AdminFrame

\* SELECT id, customer_name, customer_email, amount, status, created_at FROM
\* orders ORDER BY created_at DESC LIMIT 50: the rows, latest id first
RECURSIVE OrderList(_)
OrderList(ids) ==
    IF ids = {} THEN <<>>
    ELSE LET id == Max(ids)
         IN  <<[id |-> id, customer_name |-> orders[id].customer_name,
                customer_email |-> orders[id].customer_email,
                amount |-> orders[id].amount, status |-> orders[id].status]>>
             \o OrderList(ids \ {id})

GetOrders(req) ==
    AdminQuery("GET /api/admin/orders", req, TRUE, tables, OrderList(DOMAIN orders))

EventBodies == {[details |-> "e2", date |-> 1]}     \* req.body of PUT /event

\* SELECT id FROM events ORDER BY date DESC LIMIT 1: a row of the latest date
LatestEvents(rows) ==
    {i \in DOMAIN rows : \A j \in DOMAIN rows : rows[j].date <= rows[i].date}

\* writes of a table that have read it and not inserted yet
PendingWrites(route) ==
    Cardinality({i \in Slots : inflight[i].route = route})

\* PUT /api/admin/event: the gate and the SELECT, up to the await of the
\* INSERT or UPDATE
PutEvent(req) ==
    /\ Ready
    /\ \/ /\ GateStatus(req.token) # 200
          /\ Respond("PUT /api/admin/event", req, GateStatus(req.token), GateError(req.token))
          /\ UNCHANGED inflight
       \/ /\ GateStatus(req.token) = 200
          /\ HasFreeSlot
          /\ serial["events"] + PendingWrites("event") < MaxRows
          /\ \E existing \in (IF tables["events"] = <<>> THEN {{}}
                              ELSE {{i} : i \in LatestEvents(tables["events"])}) :
                Suspend([route |-> "event", req |-> req, existingEvents |-> existing])
          /\ last' = NoResponse
       \/ /\ GateStatus(req.token) = 200
          /\ RespondCaught("PUT /api/admin/event", req, 500, [error |-> "Internal server error"])
          /\ UNCHANGED inflight
    /\ UNCHANGED <<tables, serial>>
    /\ AdminFrame

\* the INSERT INTO events or the UPDATE events ... WHERE id = $7 settles
PutEventQuery(i) ==
    /\ Ready
    /\ inflight[i].route = "event"
    /\ \/ /\ IF inflight[i].existingEvents = {}
             THEN /\ serial' = [serial EXCEPT !["events"] = @ + 1]
                  /\ tables' = [tables EXCEPT !["events"] =
                                   (serial["events"] + 1 :> inflight[i].req.body) @@ @]
             ELSE /\ serial' = serial
                  /\ tables' = [tables EXCEPT !["events"] =
                                   [j \in DOMAIN @ |->
                                       IF j \in inflight[i].existingEvents
                                       THEN inflight[i].req.body ELSE @[j]]]
          /\ Respond("PUT /api/admin/event", inflight[i].req, 200, [success |-> TRUE])
       \/ /\ UNCHANGED <<tables, serial>>
          /\ RespondCaught("PUT /api/admin/event", inflight[i].req, 500,
                           [error |-> "Internal server error"])
    /\ Finish(i)
    /\ AdminFrame

Sections == {"hero", "about"}       \* req.params.section
ContentBodies == {"c2"}             \* title, subtitle, description, content_data

\* the place of a section name in text order
SectionRank(section) == IF section = "about" THEN 1 ELSE 2

\* ORDER BY section, a column that is UNIQUE
RECURSIVE BySection(_, _)
BySection(rows, ids) ==
    IF ids = {} THEN <<>>
    ELSE LET first == CHOOSE i \in ids : \A j \in ids :
                         SectionRank(rows[i].section) <= SectionRank(rows[j].section)
         IN  <<[id |-> first, section |-> rows[first].section,
                content |-> rows[first].content]>> \o BySection(rows, ids \ {first})

\* GET /api/admin/content: SELECT * FROM site_content ORDER BY section
GetContent(req) ==
    AdminQuery("GET /api/admin/content", req, TRUE, tables,
               BySection(tables["site_content"], DOMAIN tables["site_content"]))

\* UPDATE site_content SET title = $1, ... WHERE section = $5
UpdateContent(rows, section, content) ==
    [i \in DOMAIN rows |->
        IF rows[i].section = section THEN [rows[i] EXCEPT !.content = content]
        ELSE rows[i]]

\* PUT /api/admin/content/:section
PutContent(req) ==
    AdminQuery("PUT /api/admin/content/:section", req, TRUE,
               [tables EXCEPT !["site_content"] = UpdateContent(@, req.section, req.body)],
               [success |-> TRUE])

\* ORDER BY created_at DESC; of two rows stamped at one value of the model's
\* clock, coarser than CURRENT_TIMESTAMP, the one inserted later comes first
RECURSIVE LatestFirst(_, _)
LatestFirst(rows, ids) ==
    IF ids = {} THEN <<>>
    ELSE LET first == CHOOSE i \in ids : \A j \in ids \ {i} :
                         \/ rows[j].created_at < rows[i].created_at
                         \/ rows[j].created_at = rows[i].created_at /\ j < i
         IN  <<first>> \o LatestFirst(rows, ids \ {first})

\* GET /api/admin/contact-forms: SELECT * FROM contact_forms ORDER BY
\* created_at DESC
GetContactForms(req) ==
    AdminQuery("GET /api/admin/contact-forms", req, TRUE, tables,
               LET rows == tables["contact_forms"]
                   ids == LatestFirst(rows, DOMAIN rows)
               IN  [k \in DOMAIN ids |->
                       [id |-> ids[k], message |-> rows[ids[k]].message,
                        created_at |-> rows[ids[k]].created_at]])

\* GET /api/admin/contact-forms/export: the same rows with
\* TO_CHAR(created_at, ...) as submitted_at
ExportContactForms(req) ==
    AdminQuery("GET /api/admin/contact-forms/export", req, TRUE, tables,
               LET rows == tables["contact_forms"]
                   ids == LatestFirst(rows, DOMAIN rows)
               IN  [k \in DOMAIN ids |->
                       [id |-> ids[k], message |-> rows[ids[k]].message,
                        submitted_at |-> ToString(rows[ids[k]].created_at)]])

\* DELETE FROM contact_forms WHERE id = $1
DeleteRow(rows, id) == [i \in DOMAIN rows \ {id} |-> rows[i]]

\* DELETE /api/admin/contact-forms/:id
DeleteContactForm(req) ==
    AdminQuery("DELETE /api/admin/contact-forms/:id", req, IsRowId(req.id),
               [tables EXCEPT !["contact_forms"] = DeleteRow(@, ParseRowId(req.id))],
               [success |-> TRUE])

\* SELECT ... FROM contact_info WHERE section = 'main'
MainInfo(rows) == {i \in DOMAIN rows : rows[i].section = "main"}

\* GET /api/admin/contact-info
GetContactInfo(req) ==
    AdminQuery("GET /api/admin/contact-info", req, TRUE, tables,
               LET rows == tables["contact_info"]
               IN  IF MainInfo(rows) = {} THEN [info |-> "default"]
                   ELSE [info |-> rows[CHOOSE i \in MainInfo(rows) : TRUE].info])

InfoBodies == {"i2"}        \* phone_numbers, email, location

\* PUT /api/admin/contact-info: the gate and the SELECT, up to the await of
\* the INSERT or UPDATE
PutContactInfo(req) ==
    /\ Ready
    /\ \/ /\ GateStatus(req.token) # 200
          /\ Respond("PUT /api/admin/contact-info", req, GateStatus(req.token),
                     GateError(req.token))
          /\ UNCHANGED inflight
       \/ /\ GateStatus(req.token) = 200
          /\ HasFreeSlot
          /\ MainInfo(tables["contact_info"]) = {} =>
                serial["contact_info"] + PendingWrites("contact-info") < MaxRows
          /\ Suspend([route |-> "contact-info", req |-> req,
                      existingResult |-> MainInfo(tables["contact_info"])])
          /\ last' = NoResponse
       \/ /\ GateStatus(req.token) = 200
          /\ RespondCaught("PUT /api/admin/contact-info", req, 500,
                           [error |-> "Internal server error"])
          /\ UNCHANGED inflight
    /\ UNCHANGED <<tables, serial>>
    /\ AdminFrame

\* the same on a table without UNIQUE(section)
PutContactInfoQuery_NoUnique(i) ==
    /\ Ready
    /\ inflight[i].route = "contact-info"
    /\ \/ /\ inflight[i].existingResult = {}
          /\ serial' = [serial EXCEPT !["contact_info"] = @ + 1]
          /\ tables' = [tables EXCEPT !["contact_info"] =
                           (serial["contact_info"] + 1 :>
                               [section |-> "main", info |-> inflight[i].req.body]) @@ @]
          /\ Respond("PUT /api/admin/contact-info", inflight[i].req, 200, [success |-> TRUE])
       \/ /\ inflight[i].existingResult # {}
          /\ serial' = serial
          /\ tables' = [tables EXCEPT !["contact_info"] =
                           [j \in DOMAIN @ |->
                               IF @[j].section = "main"
                               THEN [@[j] EXCEPT !.info = inflight[i].req.body]
                               ELSE @[j]]]
          /\ Respond("PUT /api/admin/contact-info", inflight[i].req, 200, [success |-> TRUE])
       \/ /\ UNCHANGED <<tables, serial>>
          /\ RespondCaught("PUT /api/admin/contact-info", inflight[i].req, 500,
                           [error |-> "Internal server error"])
    /\ Finish(i)
    /\ AdminFrame

\* the INSERT INTO contact_info or the UPDATE ... WHERE section = 'main'
\* settles; the INSERT of a second 'main' row violates UNIQUE(section) after
\* taking its id
PutContactInfoQuery(i) ==
    /\ Ready
    /\ inflight[i].route = "contact-info"
    /\ \/ /\ inflight[i].existingResult = {}
          /\ MainInfo(tables["contact_info"]) = {}
          /\ serial' = [serial EXCEPT !["contact_info"] = @ + 1]
          /\ tables' = [tables EXCEPT !["contact_info"] =
                           (serial["contact_info"] + 1 :>
                               [section |-> "main", info |-> inflight[i].req.body]) @@ @]
          /\ Respond("PUT /api/admin/contact-info", inflight[i].req, 200, [success |-> TRUE])
       \/ /\ inflight[i].existingResult = {}
          /\ MainInfo(tables["contact_info"]) # {}
          /\ serial' = [serial EXCEPT !["contact_info"] = @ + 1]
          /\ tables' = tables
          /\ RespondCaught("PUT /api/admin/contact-info", inflight[i].req, 500,
                           [error |-> "Internal server error"])
       \/ /\ inflight[i].existingResult # {}
          /\ serial' = serial
          /\ tables' = [tables EXCEPT !["contact_info"] =
                           [j \in DOMAIN @ |->
                               IF @[j].section = "main"
                               THEN [@[j] EXCEPT !.info = inflight[i].req.body]
                               ELSE @[j]]]
          /\ Respond("PUT /api/admin/contact-info", inflight[i].req, 200, [success |-> TRUE])
       \/ /\ UNCHANGED <<tables, serial>>
          /\ RespondCaught("PUT /api/admin/contact-info", inflight[i].req, 500,
                           [error |-> "Internal server error"])
    /\ Finish(i)
    /\ AdminFrame

\* GET /api/content/:section? of server.js: checkDbConnection on the
\* server's pool; with a section res.json(result.rows[0] || null), without
\* one the rows in order of section
GetPublicContent(section) ==
    /\ Ready
    /\ \/ /\ pool = "null"
          /\ Respond("GET /api/content/:section?", [section |-> section], 503,
                     [code |-> "DB_CONNECTION_ERROR"])
       \/ /\ pool = "up"
          /\ LET rows == tables["site_content"]
                 found == {i \in DOMAIN rows : rows[i].section = section}
             IN  Respond("GET /api/content/:section?", [section |-> section], 200,
                         IF section = NULL THEN BySection(rows, DOMAIN rows)
                         ELSE IF found = {} THEN NULL
                         ELSE BySection(rows, found)[1])
       \/ /\ pool = "up"
          /\ RespondCaught("GET /api/content/:section?", [section |-> section], 500,
                           [error |-> "Internal server error"])
    /\ UNCHANGED <<inflight, tables, serial>>
    /\ AdminFrame

\* the clock advances
Tick ==
    /\ Ready
    /\ now < MaxTime
    /\ now' = now + 1
    /\ UNCHANGED <<config, orders, orders_id_seq, checkedOut, inflight, last,
                   adminPool, jwtSecret, tables, serial, session, runtime>>

\* ------------------------------------------------ app.use(limiter)
RateLimitMax == 100     \* max: 100 requests per windowMs and address
MaxOver == 2            \* requests beyond the limit the model lets one address send

\* a limiter that counts and never refuses
Admit_Unlimited(addr) ==
    hits' = [hits EXCEPT ![addr] = @ + 1]

\* the limiter counts the request of addr, finds the count within max and
\* calls next(): the route's handler runs
Admit(addr) ==
    /\ hits[addr] < RateLimitMax
    /\ hits' = [hits EXCEPT ![addr] = @ + 1]

\* the limiter counts the request, finds the count above max and answers
\* 429 with the configured message; next() is not called
RateLimited(addr, route) ==
    /\ Ready
    /\ hits[addr] >= RateLimitMax
    /\ hits[addr] < RateLimitMax + MaxOver
    /\ hits' = [hits EXCEPT ![addr] = @ + 1]
    /\ Respond(route, [ip |-> addr], 429,
               [error |-> "Too many requests", code |-> "RATE_LIMIT_EXCEEDED"])
    /\ UNCHANGED <<config, admin, orders, orders_id_seq, checkedOut, inflight>>

\* windowMs has passed since the first request counted for addr: its count
\* is dropped
WindowEnd(addr) ==
    /\ Ready
    /\ hits[addr] > 0
    /\ hits' = [hits EXCEPT ![addr] = 0]
    /\ UNCHANGED <<config, admin, orders, orders_id_seq, checkedOut, inflight, last>>

\* --------------------------------------------- the two pg pools
MainPoolMax == 20       \* max: 20 of poolConfig in server.js
AdminPoolMax == 10      \* new Pool(connectionConfig) without max: the default of pg
PoolMax == [p \in PoolNames |-> IF p = "main" THEN MainPoolMax ELSE AdminPoolMax]

\* the handle a router reads
Handle(p) == IF p = "main" THEN pool ELSE adminPool

\* a handler of the router of pool p calls pool.query or pool.connect: an idle
\* client is reused, else a connection is opened while the pool is below its
\* max; at the max the call waits in the pool's queue
Acquire(p) ==
    /\ Handle(p) = "up"
    /\ \/ /\ connections[p].busy < connections[p].open
          /\ connections' = [connections EXCEPT ![p].busy = @ + 1]
       \/ /\ connections[p].busy = connections[p].open
          /\ connections[p].open < PoolMax[p]
          /\ connections' = [connections EXCEPT ![p].busy = @ + 1, ![p].open = @ + 1]
    /\ UNCHANGED <<config, orders, orders_id_seq, checkedOut, inflight, last, adminPool,
                   jwtSecret, now, tables, serial, session, startup>>

\* the query settles or client.release() runs: the client is idle again
Release(p) ==
    /\ connections[p].busy > 0
    /\ connections' = [connections EXCEPT ![p].busy = @ - 1]
    /\ UNCHANGED <<config, orders, orders_id_seq, checkedOut, inflight, last, adminPool,
                   jwtSecret, now, tables, serial, session, startup>>

\* idleTimeoutMillis passes for an idle client: its connection is closed
IdleTimeout(p) ==
    /\ connections[p].busy < connections[p].open
    /\ connections' = [connections EXCEPT ![p].open = @ - 1]
    /\ UNCHANGED <<config, orders, orders_id_seq, checkedOut, inflight, last, adminPool,
                   jwtSecret, now, tables, serial, session, startup>>

\* ------------------------------------------------------ specification
\* the response of a turn has left the server before the next callback runs
Flush ==
    /\ last # NoResponse
    /\ last' = NoResponse
    /\ UNCHANGED <<config, admin, orders, orders_id_seq, checkedOut, inflight>>

Next ==
    \/ \E body \in OrderBodies : CreateOrder(body) /\ UNCHANGED limiter
    \/ \E i \in Slots : Connect(i) /\ UNCHANGED limiter
    \/ \E i \in Slots : Begin(i) /\ UNCHANGED limiter
    \/ \E i \in Slots : Insert(i) /\ UNCHANGED limiter
    \/ \E i \in Slots : PaymentLinkCreate(i) /\ UNCHANGED limiter
    \/ \E i \in Slots : UpdatePaymentId(i) /\ UNCHANGED limiter
    \/ \E i \in Slots : Commit(i) /\ UNCHANGED limiter
    \/ \E i \in Slots : Rollback(i) /\ UNCHANGED limiter
    \/ \E req \in VerifyInputs : VerifyPayment(req) /\ UNCHANGED limiter
    \/ \E i \in Slots : VerifyPaymentQuery(i) /\ UNCHANGED limiter
    \/ \E q \in SuccessQueries : PaymentSuccess(q) /\ UNCHANGED limiter
    \/ \E i \in Slots : PaymentSuccessQuery(i) /\ UNCHANGED limiter
    \/ \E b \in WebhookBodies : RazorpayWebhook(b) /\ UNCHANGED limiter
    \/ \E i \in Slots : WebhookQuery(i) /\ UNCHANGED limiter
    \/ Flush /\ UNCHANGED limiter

Spec == Init /\ [][Next]_vars

TypeOK ==
    /\ \A id \in DOMAIN orders : id \in 1..orders_id_seq
    /\ checkedOut \in 0..MaxInFlight

\* the three completion channels alone, racing for order 1 that an earlier
\* POST /api/orders has committed with its payment link
MaxChannels == 3

InitChannels ==
    /\ pool = "up"
    /\ razorpay = TRUE
    /\ secret = KeySecret
    /\ orders = (1 :> [NewOrderRow(BodyA) EXCEPT !.payment_id = "plink_1"])
    /\ orders_id_seq = 1
    /\ checkedOut = 0
    /\ inflight = [i \in 1..MaxChannels |-> Idle]
    /\ last = NoResponse
    /\ AdminInit

NextChannels ==
    \/ \E req \in {r \in VerifyInputs : r.orderId = "1"} : VerifyPayment(req) /\ UNCHANGED limiter
    \/ \E i \in Slots : VerifyPaymentQuery(i) /\ UNCHANGED limiter
    \/ \E q \in {r \in SuccessQueries : r.order_id = "1"} : PaymentSuccess(q) /\ UNCHANGED limiter
    \/ \E i \in Slots : PaymentSuccessQuery(i) /\ UNCHANGED limiter
    \/ \E b \in {r \in WebhookBodies : r.order_id = "1"} : RazorpayWebhook(b) /\ UNCHANGED limiter
    \/ \E i \in Slots : WebhookQuery(i) /\ UNCHANGED limiter
    \/ Flush /\ UNCHANGED limiter

SpecChannels == InitChannels /\ [][NextChannels]_vars

\* The three channels arriving for an order that a channel has completed
\* before (with payment id pay_b).
InitRecompletion ==
    /\ pool = "up"
    /\ razorpay = TRUE
    /\ secret = KeySecret
    /\ orders = CompleteOrder((1 :> NewOrderRow(BodyA)), 1, "pay_b")
    /\ orders_id_seq = 1
    /\ checkedOut = 0
    /\ inflight = [i \in 1..MaxChannels |-> Idle]
    /\ last = NoResponse
    /\ AdminInit

SpecRecompletion == InitRecompletion /\ [][NextChannels]_vars

\* POST /api/orders alone, with a placeholder among the configured secrets
InitOrders == InitWith({NULL, KeySecret, "your_key_secret"})

NextOrders ==
    \/ \E body \in OrderBodies : CreateOrder(body) /\ UNCHANGED limiter
    \/ \E i \in Slots : Connect(i) /\ UNCHANGED limiter
    \/ \E i \in Slots : Begin(i) /\ UNCHANGED limiter
    \/ \E i \in Slots : Insert(i) /\ UNCHANGED limiter
    \/ \E i \in Slots : PaymentLinkCreate(i) /\ UNCHANGED limiter
    \/ \E i \in Slots : UpdatePaymentId(i) /\ UNCHANGED limiter
    \/ \E i \in Slots : Commit(i) /\ UNCHANGED limiter
    \/ \E i \in Slots : Rollback(i) /\ UNCHANGED limiter
    \/ Flush /\ UNCHANGED limiter

SpecOrders == InitOrders /\ [][NextOrders]_vars

\* The process dies while handlers are suspended and is started again with
\* the same environment: the suspended handlers never answer, and the store
\* rolls back the transactions of the connections it lost, so the rows they
\* inserted without COMMIT are gone; the sequence keeps the values it gave.
Crash ==
    /\ Ready
    /\ \E i \in Slots : inflight[i] # Idle
    /\ last' = [route |-> "crash",
                interrupted |-> {inflight[i] : i \in {j \in Slots : inflight[j] # Idle}}]
    /\ inflight' = [i \in Slots |-> Idle]
    /\ checkedOut' = 0
    /\ UNCHANGED <<config, admin, orders, orders_id_seq>>

NextCrash ==
    \/ NextOrders
    \/ Crash /\ hits' = NoHits

SpecCrash == InitOrders /\ [][NextCrash]_vars

\* The catalogue: the admin and public routes of packages and speakers, with
\* a valid and a missing token, on tables that start empty
ValidToken == [adminId |-> 1, key |-> JwtSecret, exp |-> MaxTime + 1]
CatalogTokens == {ValidToken, NoToken}
ListRequests == [token : CatalogTokens]
CreateRequests == [token : CatalogTokens, profile : {"p1"}]
UpdateRequests == [token : CatalogTokens, id : RowIdInputs, profile : {"p2"}]
DeleteRequests == [token : CatalogTokens, id : RowIdInputs]
ReorderRequests == [token : CatalogTokens, id : RowIdInputs, display_order : DisplayOrders]

InitCatalog ==
    /\ pool \in {"up", "null"}
    /\ razorpay = FALSE
    /\ secret = NULL
    /\ orders = <<>>
    /\ orders_id_seq = 0
    /\ checkedOut = 0
    /\ inflight = [i \in 1..MaxInFlight |-> Idle]
    /\ last = NoResponse
    /\ AdminInit

NextCatalog ==
    \/ GetPackages /\ UNCHANGED limiter
    \/ GetSpeakers /\ UNCHANGED limiter
    \/ \E req \in ListRequests : GetAdminPackages(req) /\ UNCHANGED limiter
    \/ \E req \in ListRequests : GetAdminSpeakers(req) /\ UNCHANGED limiter
    \/ \E req \in CreateRequests : CreatePackage(req) /\ UNCHANGED limiter
    \/ \E req \in CreateRequests : CreateSpeaker(req) /\ UNCHANGED limiter
    \/ \E i \in Slots : InsertPackage(i) /\ UNCHANGED limiter
    \/ \E i \in Slots : InsertSpeaker(i) /\ UNCHANGED limiter
    \/ \E req \in UpdateRequests : UpdatePackage(req) /\ UNCHANGED limiter
    \/ \E req \in UpdateRequests : UpdateSpeaker(req) /\ UNCHANGED limiter
    \/ \E req \in DeleteRequests : DeletePackage(req) /\ UNCHANGED limiter
    \/ \E req \in DeleteRequests : DeleteSpeaker(req) /\ UNCHANGED limiter
    \/ \E req \in ReorderRequests : ReorderPackage(req) /\ UNCHANGED limiter
    \/ \E req \in ReorderRequests : ReorderSpeaker(req) /\ UNCHANGED limiter
    \/ Flush /\ UNCHANGED limiter

SpecCatalog == InitCatalog /\ [][NextCatalog]_vars

\* The admin router: every route behind verifyAdminToken, with a missing, a
\* forged and a genuine token that expires when the clock advances, on the
\* store as initDb.js leaves it, with one completed order
MaxAdmin == 1       \* admin requests suspended at an await at the same time

AdminTokens ==
    {NoToken,
     [adminId |-> 1, key |-> JwtSecret, exp |-> 1],
     [adminId |-> 1, key |-> "forged_key", exp |-> 1]}

DefaultEvent == [details |-> "e1", date |-> 1]

\* rows initDb.js inserts into the tables it finds empty, and a contact form
\* a visitor has submitted
Seeded ==
    [NoRows EXCEPT
        !["events"] = (1 :> DefaultEvent),
        !["site_content"] = (1 :> [section |-> "hero", content |-> "c1"]),
        !["event_packages"] = (1 :> [profile |-> "p1", display_order |-> 1, is_active |-> TRUE]),
        !["speakers"] = (1 :> [profile |-> "p1", display_order |-> 1, is_active |-> TRUE]),
        !["contact_info"] = (1 :> [section |-> "main", info |-> "i1"]),
        !["contact_forms"] = (1 :> [message |-> "Please call me back", created_at |-> 0])]

InitAdmin ==
    /\ pool \in {"up", "null"}
    /\ razorpay = FALSE
    /\ secret = NULL
    /\ orders = CompleteOrder((1 :> NewOrderRow(BodyA)), 1, "pay_a")
    /\ orders_id_seq = 1
    /\ checkedOut = 0
    /\ inflight = [i \in 1..MaxAdmin |-> Idle]
    /\ last = NoResponse
    /\ ProcessInit
    /\ adminPool = pool
    /\ jwtSecret = JwtSecret
    /\ now = 0
    /\ tables = Seeded
    /\ serial = [t \in TableNames |-> Cardinality(DOMAIN tables[t])]

NextAdmin ==
    \/ \E token \in AdminTokens : CheckAuth([token |-> token]) /\ UNCHANGED limiter
    \/ \E token \in AdminTokens : GetStats([token |-> token]) /\ UNCHANGED limiter
    \/ \E i \in Slots : GetStatsQuery(i) /\ UNCHANGED limiter
    \/ \E token \in AdminTokens : GetOrders([token |-> token]) /\ UNCHANGED limiter
    \/ \E token \in AdminTokens, body \in EventBodies : PutEvent([token |-> token, body |-> body]) /\ UNCHANGED limiter
    \/ \E i \in Slots : PutEventQuery(i) /\ UNCHANGED limiter
    \/ \E token \in AdminTokens : GetContent([token |-> token]) /\ UNCHANGED limiter
    \/ \E token \in AdminTokens, section \in Sections, body \in ContentBodies :
          PutContent([token |-> token, section |-> section, body |-> body]) /\ UNCHANGED limiter
    \/ \E token \in AdminTokens : GetAdminPackages([token |-> token]) /\ UNCHANGED limiter
    \/ \E token \in AdminTokens : CreatePackage([token |-> token, profile |-> "p1"]) /\ UNCHANGED limiter
    \/ \E i \in Slots : InsertPackage(i) /\ UNCHANGED limiter
    \/ \E token \in AdminTokens : UpdatePackage([token |-> token, id |-> "1", profile |-> "p2"]) /\ UNCHANGED limiter
    \/ \E token \in AdminTokens : DeletePackage([token |-> token, id |-> "2"]) /\ UNCHANGED limiter
    \/ \E token \in AdminTokens :
          ReorderPackage([token |-> token, id |-> "2", display_order |-> 1]) /\ UNCHANGED limiter
    \/ \E token \in AdminTokens : GetAdminSpeakers([token |-> token]) /\ UNCHANGED limiter
    \/ \E token \in AdminTokens : CreateSpeaker([token |-> token, profile |-> "p1"]) /\ UNCHANGED limiter
    \/ \E i \in Slots : InsertSpeaker(i) /\ UNCHANGED limiter
    \/ \E token \in AdminTokens : UpdateSpeaker([token |-> token, id |-> "1", profile |-> "p2"]) /\ UNCHANGED limiter
    \/ \E token \in AdminTokens : DeleteSpeaker([token |-> token, id |-> "2"]) /\ UNCHANGED limiter
    \/ \E token \in AdminTokens :
          ReorderSpeaker([token |-> token, id |-> "2", display_order |-> 1]) /\ UNCHANGED limiter
    \/ \E token \in AdminTokens : GetContactForms([token |-> token]) /\ UNCHANGED limiter
    \/ \E token \in AdminTokens : ExportContactForms([token |-> token]) /\ UNCHANGED limiter
    \/ \E token \in AdminTokens, id \in RowIdInputs :
          DeleteContactForm([token |-> token, id |-> id]) /\ UNCHANGED limiter
    \/ \E token \in AdminTokens : GetContactInfo([token |-> token]) /\ UNCHANGED limiter
    \/ \E token \in AdminTokens, body \in InfoBodies :
          PutContactInfo([token |-> token, body |-> body]) /\ UNCHANGED limiter
    \/ \E i \in Slots : PutContactInfoQuery(i) /\ UNCHANGED limiter
    \/ Tick /\ UNCHANGED limiter
    \/ Flush /\ UNCHANGED limiter

SpecAdmin == InitAdmin /\ [][NextAdmin]_vars

\* Site content: the admin and public content routes on a store that holds
\* the section 'hero'
InitContent ==
    /\ pool \in {"up", "null"}
    /\ razorpay = FALSE
    /\ secret = NULL
    /\ orders = <<>>
    /\ orders_id_seq = 0
    /\ checkedOut = 0
    /\ inflight = [i \in 1..MaxAdmin |-> Idle]
    /\ last = NoResponse
    /\ ProcessInit
    /\ adminPool = pool
    /\ jwtSecret = JwtSecret
    /\ now = 0
    /\ tables = [NoRows EXCEPT !["site_content"] = (1 :> [section |-> "hero", content |-> "c1"])]
    /\ serial = [t \in TableNames |-> Cardinality(DOMAIN tables[t])]

NextContent ==
    \/ \E token \in AdminTokens : GetContent([token |-> token]) /\ UNCHANGED limiter
    \/ \E token \in AdminTokens, section \in Sections, body \in ContentBodies \cup {"c3"} :
          PutContent([token |-> token, section |-> section, body |-> body]) /\ UNCHANGED limiter
    \/ \E section \in Sections \cup {NULL} : GetPublicContent(section) /\ UNCHANGED limiter
    \/ Tick /\ UNCHANGED limiter
    \/ Flush /\ UNCHANGED limiter

SpecContent == InitContent /\ [][NextContent]_vars

\* Contact info: the admin contact-info routes, two requests at a time, on
\* a contact_info table that holds no row yet
InitContactInfo ==
    /\ pool \in {"up", "null"}
    /\ razorpay = FALSE
    /\ secret = NULL
    /\ orders = <<>>
    /\ orders_id_seq = 0
    /\ checkedOut = 0
    /\ inflight = [i \in 1..MaxInFlight |-> Idle]
    /\ last = NoResponse
    /\ AdminInit

NextContactInfo ==
    \/ \E token \in CatalogTokens : GetContactInfo([token |-> token]) /\ UNCHANGED limiter
    \/ \E token \in CatalogTokens, body \in InfoBodies \cup {"i3"} :
          PutContactInfo([token |-> token, body |-> body]) /\ UNCHANGED limiter
    \/ \E i \in Slots : PutContactInfoQuery(i) /\ UNCHANGED limiter
    \/ Flush /\ UNCHANGED limiter

SpecContactInfo == InitContactInfo /\ [][NextContactInfo]_vars

\* The order table under every kind of request together: one order is
\* committed and awaits payment; orders are created, the three completion
\* channels arrive for order 1, and an administrator reads the statistics and
\* the orders and edits the event and the site content.
InitLedger ==
    /\ pool = "up"
    /\ razorpay = TRUE
    /\ secret = KeySecret
    /\ orders = (1 :> [NewOrderRow(BodyA) EXCEPT !.payment_id = "plink_1"])
    /\ orders_id_seq = 1
    /\ checkedOut = 0
    /\ inflight = [i \in 1..MaxInFlight |-> Idle]
    /\ last = NoResponse
    /\ AdminInit

NextLedger ==
    \/ \E body \in OrderBodies : CreateOrder(body) /\ UNCHANGED limiter
    \/ \E i \in Slots : Connect(i) /\ UNCHANGED limiter
    \/ \E i \in Slots : Begin(i) /\ UNCHANGED limiter
    \/ \E i \in Slots : Insert(i) /\ UNCHANGED limiter
    \/ \E i \in Slots : PaymentLinkCreate(i) /\ UNCHANGED limiter
    \/ \E i \in Slots : UpdatePaymentId(i) /\ UNCHANGED limiter
    \/ \E i \in Slots : Commit(i) /\ UNCHANGED limiter
    \/ \E i \in Slots : Rollback(i) /\ UNCHANGED limiter
    \/ \E req \in {r \in VerifyInputs : r.orderId = "1"} : VerifyPayment(req) /\ UNCHANGED limiter
    \/ \E i \in Slots : VerifyPaymentQuery(i) /\ UNCHANGED limiter
    \/ \E q \in {r \in SuccessQueries : r.order_id = "1" /\ r.razorpay_payment_link_id = NULL} :
          PaymentSuccess(q) /\ UNCHANGED limiter
    \/ \E i \in Slots : PaymentSuccessQuery(i) /\ UNCHANGED limiter
    \/ \E b \in {r \in WebhookBodies : r.order_id = "1" /\ r.payment_id = "pay_b"} :
          RazorpayWebhook(b) /\ UNCHANGED limiter
    \/ \E i \in Slots : WebhookQuery(i) /\ UNCHANGED limiter
    \/ GetStats([token |-> ValidToken]) /\ UNCHANGED limiter
    \/ \E i \in Slots : GetStatsQuery(i) /\ UNCHANGED limiter
    \/ GetOrders([token |-> ValidToken]) /\ UNCHANGED limiter
    \/ \E body \in EventBodies : PutEvent([token |-> ValidToken, body |-> body]) /\ UNCHANGED limiter
    \/ \E i \in Slots : PutEventQuery(i) /\ UNCHANGED limiter
    \/ PutContent([token |-> ValidToken, section |-> "hero", body |-> "c2"]) /\ UNCHANGED limiter
    \/ Flush /\ UNCHANGED limiter

SpecLedger == InitLedger /\ [][NextLedger]_vars

\* Signing in and out: the administrator signs in at any time, signs out, and
\* gated routes are called with what the browser holds or with a token a
\* login has answered with.
InitSession ==
    /\ pool = "up"
    /\ razorpay = FALSE
    /\ secret = NULL
    /\ orders = CompleteOrder((1 :> NewOrderRow(BodyA)), 1, "pay_a")
    /\ orders_id_seq = 1
    /\ checkedOut = 0
    /\ inflight = [i \in 1..MaxAdmin |-> Idle]
    /\ last = NoResponse
    /\ ProcessInit
    /\ adminPool = pool
    /\ jwtSecret \in {JwtSecret, NULL}
    /\ now = 0
    /\ tables = Seeded
    /\ serial = [t \in TableNames |-> Cardinality(DOMAIN tables[t])]

NextSession ==
    \/ \E req \in Credentials : Login(req) /\ UNCHANGED limiter
    \/ Logout /\ UNCHANGED limiter
    \/ \E token \in issued \cup {cookie} : CheckAuth([token |-> token]) /\ UNCHANGED limiter
    \/ \E token \in issued \cup {cookie} : GetOrders([token |-> token]) /\ UNCHANGED limiter
    \/ \E token \in issued \cup {cookie} : GetContent([token |-> token]) /\ UNCHANGED limiter
    \/ Tick /\ UNCHANGED limiter
    \/ Flush /\ UNCHANGED limiter

SpecSession == InitSession /\ [][NextSession]_vars

\* The connections of the process while requests of both routers run their
\* queries.
InitPools ==
    /\ pool = "up"
    /\ razorpay = FALSE
    /\ secret = NULL
    /\ orders = <<>>
    /\ orders_id_seq = 0
    /\ checkedOut = 0
    /\ inflight = [i \in 1..MaxAdmin |-> Idle]
    /\ last = NoResponse
    /\ AdminInit

NextPools ==
    \/ \E p \in PoolNames : Acquire(p) /\ UNCHANGED limiter
    \/ \E p \in PoolNames : Release(p) /\ UNCHANGED limiter
    \/ \E p \in PoolNames : IdleTimeout(p) /\ UNCHANGED limiter

SpecPools == InitPools /\ [][NextPools]_vars

\* ------------------------------------------- startServer() and initDb.js
\* the awaited statements of initializeDatabase in order: the schema, then
\* for each table a count and the default rows when the count is 0
InitStages == <<"schema", "events", "stats", "admins", "site_content", "event_packages",
                "speakers", "contact_info">>
SeededTables == {"events", "site_content", "event_packages", "speakers", "contact_info"}

StageIndex(stage) == CHOOSE i \in 1..Len(InitStages) : InitStages[i] = stage
StageAfter(stage) ==
    IF StageIndex(stage) = Len(InitStages) THEN "end" ELSE InitStages[StageIndex(stage) + 1]

\* the process has run its module code: startServer() has called
\* initializeDatabase, which has built its own pool
Starting == [pc |-> "schema", err |-> FALSE, initPool |-> "open", outcome |-> "pending",
             listening |-> FALSE]

\* startServer calling app.listen without awaiting initializeDatabase
Listen_NoAwait ==
    /\ ~startup.listening
    /\ startup' = [startup EXCEPT !.listening = TRUE]
    /\ UNCHANGED <<config, orders, orders_id_seq, checkedOut, inflight, last, adminPool,
                   jwtSecret, now, tables, serial, session, connections>>

\* one awaited stage of initializeDatabase settles: it has seeded its table
\* when the table was empty, or it rejects and control goes to catch/finally
InitializeDatabase ==
    /\ startup.pc \notin {"end", "done"}
    /\ \/ /\ startup' = [startup EXCEPT !.pc = StageAfter(startup.pc)]
          /\ IF startup.pc \in SeededTables /\ DOMAIN tables[startup.pc] = {}
             THEN /\ tables' = [tables EXCEPT ![startup.pc] = Seeded[startup.pc]]
                  /\ serial' = [serial EXCEPT ![startup.pc] =
                                   @ + Cardinality(DOMAIN Seeded[startup.pc])]
             ELSE UNCHANGED <<tables, serial>>
       \/ /\ startup' = [startup EXCEPT !.pc = "end", !.err = TRUE]
          /\ UNCHANGED <<tables, serial>>
    /\ UNCHANGED <<config, orders, orders_id_seq, checkedOut, inflight, last, adminPool,
                   jwtSecret, now, session, connections>>

\* finally { await pool.end() }: the pool of initializeDatabase is closed and
\* its promise settles, rejected when catch rethrew
EndPool ==
    /\ startup.pc = "end"
    /\ startup' = [startup EXCEPT !.pc = "done", !.initPool = "ended",
                       !.outcome = IF startup.err THEN "rejected" ELSE "resolved"]
    /\ UNCHANGED <<config, orders, orders_id_seq, checkedOut, inflight, last, adminPool,
                   jwtSecret, now, tables, serial, session, connections>>

\* startServer resumes after await initializeDatabase(), in the try block or
\* in catch: app.listen(port, '0.0.0.0')
Listen ==
    /\ ~startup.listening
    /\ startup.outcome \in {"resolved", "rejected"}
    /\ startup' = [startup EXCEPT !.listening = TRUE]
    /\ UNCHANGED <<config, orders, orders_id_seq, checkedOut, inflight, last, adminPool,
                   jwtSecret, now, tables, serial, session, connections>>

\* The process starts against a store in which any of the seeded tables may
\* be empty; once it listens it answers /check-auth. Every awaited
\* statement settles, and a continuation that can run does run.
InitStartup ==
    /\ pool = "up"
    /\ razorpay = FALSE
    /\ secret = NULL
    /\ orders = <<>>
    /\ orders_id_seq = 0
    /\ checkedOut = 0
    /\ inflight = [i \in 1..MaxAdmin |-> Idle]
    /\ last = NoResponse
    /\ cookie = NoToken
    /\ issued = {}
    /\ connections = [p \in PoolNames |-> [open |-> 0, busy |-> 0]]
    /\ startup = Starting
    /\ hits = NoHits
    /\ adminPool = pool
    /\ jwtSecret = JwtSecret
    /\ now = 0
    /\ \E present \in SUBSET SeededTables :
          tables = [t \in TableNames |-> IF t \in present THEN Seeded[t] ELSE <<>>]
    /\ serial = [t \in TableNames |-> Cardinality(DOMAIN tables[t])]

NextStartup ==
    \/ InitializeDatabase /\ UNCHANGED limiter
    \/ EndPool /\ UNCHANGED limiter
    \/ Listen /\ UNCHANGED limiter
    \/ \E token \in AdminTokens : startup.listening /\ CheckAuth([token |-> token]) /\ UNCHANGED limiter
    \/ Flush /\ UNCHANGED limiter

SpecStartup ==
    /\ InitStartup
    /\ [][NextStartup]_vars
    /\ WF_vars(InitializeDatabase /\ UNCHANGED limiter)
    /\ WF_vars(EndPool /\ UNCHANGED limiter)
    /\ WF_vars(Listen /\ UNCHANGED limiter)

\* Requests of two addresses passing the limiter on their way to routes of
\* both routers: a public read, the gate alone, the logout and a gated write.
LimitedRoutes == {"GET /api/content/:section?", "GET /api/admin/check-auth",
                  "POST /api/admin/logout", "PUT /api/admin/content/:section"}

InitLimiter ==
    /\ pool = "up"
    /\ razorpay = FALSE
    /\ secret = NULL
    /\ orders = <<>>
    /\ orders_id_seq = 0
    /\ checkedOut = 0
    /\ inflight = [i \in 1..MaxAdmin |-> Idle]
    /\ last = NoResponse
    /\ ProcessInit
    /\ adminPool = pool
    /\ jwtSecret = JwtSecret
    /\ now = 0
    /\ tables = [NoRows EXCEPT !["site_content"] = (1 :> [section |-> "hero", content |-> "c1"])]
    /\ serial = [t \in TableNames |-> Cardinality(DOMAIN tables[t])]

NextLimiter ==
    \/ \E addr \in Addresses : Admit(addr) /\ GetPublicContent("hero")
    \/ \E addr \in Addresses : Admit(addr) /\ CheckAuth([token |-> NoToken])
    \/ \E addr \in Addresses : Admit(addr) /\ Logout
    \/ \E addr \in Addresses :
          Admit(addr) /\ PutContent([token |-> ValidToken, section |-> "hero", body |-> "c2"])
    \/ \E addr \in Addresses, route \in LimitedRoutes : RateLimited(addr, route)
    \/ \E addr \in Addresses : WindowEnd(addr)
    \/ Flush /\ UNCHANGED limiter

SpecLimiter == InitLimiter /\ [][NextLimiter]_vars

\* ================================================================ claims
OrderFields == {"customer_name", "customer_email", "customer_phone",
                "package_name", "amount", "status", "payment_id"}

\* the order a completion request names, and the identifier it asks to store
NamedOrder(route, req) ==
    IF route = "verify" THEN ParseId(req.orderId) ELSE ParseId(req.order_id)

GivenPaymentId(route, req) ==
    CASE route = "verify" -> req.paymentId
      [] route = "payment-success" ->
            IF req.razorpay_payment_id # NULL THEN req.razorpay_payment_id
            ELSE req.razorpay_payment_link_id
      [] route = "webhook" -> req.payment_id

\* the request asks its channel to complete an order
AsksCompletion(route, req) ==
    CASE route = "verify" ->
            secret # NULL
            /\ req.signature = HMAC(secret, req.orderId \o "|" \o req.paymentId)
      [] route = "payment-success" ->
            req.razorpay_payment_link_status = "paid" /\ req.order_id # NULL
      [] route = "webhook" ->
            req.event = "payment_link.paid" /\ req.has_payload /\ req.has_payment_link
            /\ req.has_notes /\ req.order_id # NULL /\ req.has_payment
      [] OTHER -> FALSE

\* the response reports that the channel's UPDATE ran
ReportsCompletion(resp) ==
    CASE resp.route = "verify" -> resp.status = 200
      [] resp.route = "payment-success" -> resp.body.payment = "success"
      [] resp.route = "webhook" -> resp.status = 200 /\ AsksCompletion("webhook", resp.req)
      [] OTHER -> FALSE

\* the row is what `was` becomes when completed with payment id pid
CompletedFrom(row, was, pid) ==
    /\ row.status = "completed"
    /\ row.payment_id = pid
    /\ \A f \in OrderFields \ {"status", "payment_id"} : row[f] = was[f]

\* C1: every POST /api/orders whose inputs are valid and whose transaction
\* commits leaves its row with status 'pending' at the moment of the 200
\* response, whether the provider is unconfigured, its call succeeded or failed.
C1_CreatedPending ==
    (last.route = "orders" /\ last.status = 200 /\ last.body.orderId \in DOMAIN orders)
        => orders[last.body.orderId].status = "pending"

\* an order committed although the configured provider's call failed
C1_Witness ==
    /\ last.route = "orders" /\ last.status = 200
    /\ last.body.orderId \in DOMAIN orders
    /\ razorpay /\ last.body.paymentLink = NULL
    /\ orders[last.body.orderId].status = "pending"

\* C2: every order's status is 'pending' or 'completed'; a step changes the
\* status of an existing order only from 'pending' to 'completed' and only as
\* the UPDATE of a verify, paid-redirect or paid-webhook request; a redirect
\* that reports a payment that is not paid changes no order.
C2_StatusTransitions ==
    [][/\ \A id \in DOMAIN orders' : orders'[id].status \in {"pending", "completed"}
       /\ \A id \in DOMAIN orders \cap DOMAIN orders' :
            orders'[id].status # orders[id].status
                => /\ orders[id].status = "pending"
                   /\ orders'[id].status = "completed"
                   /\ ReportsCompletion(last')
                   /\ NamedOrder(last'.route, last'.req) = id
       /\ (last'.route = "payment-success" /\ last'.body.payment = "failed")
            => orders' = orders]_vars

\* one order completed, and a redirect reporting a cancelled payment for
\* another order, which is pending
C2_Witness ==
    /\ last.route = "payment-success" /\ last.body.payment = "failed"
    /\ last.req.razorpay_payment_link_status = "cancelled"
    /\ last.req.order_id # NULL
    /\ ParseId(last.req.order_id) \in DOMAIN orders
    /\ orders[ParseId(last.req.order_id)].status = "pending"
    /\ \E id \in DOMAIN orders : orders[id].status = "completed"

\* C3: on a request that is answered (no 503 for a missing pool, no 500 from
\* the catch block), /api/verify-payment answers success:true and has completed
\* the named order if and only if the signature equals
\* HMAC-SHA256(secret, orderId "|" paymentId); and every triple that differs
\* from an accepted one in exactly one component fails the comparison.
DiffersInOne(a, b) ==
    Cardinality({f \in {"orderId", "paymentId", "signature"} : a[f] # b[f]}) = 1

C3_SignatureDecides ==
    (last.route = "verify" /\ last.status \notin {500, 503}) =>
        /\ last.status = 200 <=> AsksCompletion("verify", last.req)
        /\ last.status = 200 =>
            /\ NamedOrder("verify", last.req) \in DOMAIN orders =>
                 /\ orders[NamedOrder("verify", last.req)].status = "completed"
                 /\ orders[NamedOrder("verify", last.req)].payment_id = last.req.paymentId
            /\ \A other \in VerifyInputs :
                 DiffersInOne(other, last.req) =>
                    ExpectedSignature(secret, other.orderId, other.paymentId) # other.signature

\* an accepted verification of an order that exists
C3_Witness ==
    /\ last.route = "verify" /\ last.status = 200
    /\ NamedOrder("verify", last.req) \in DOMAIN orders
    /\ orders[NamedOrder("verify", last.req)].payment_id = last.req.paymentId

\* C4: a /api/verify-payment request whose signature does not match changes
\* no order, and is answered 400 (503 when the pool is missing, 500 when no
\* secret is configured and the HMAC cannot be computed).
C4_MismatchRejected ==
    [][(last'.route = "verify" /\ ~AsksCompletion("verify", last'.req)) =>
          /\ orders' = orders
          /\ last'.status = IF pool = "null" THEN 503
                            ELSE IF secret = NULL THEN 500 ELSE 400]_vars

\* a 400 for a signature made for the other payment id of an existing order
C4_Witness ==
    /\ last.route = "verify" /\ last.status = 400
    /\ NamedOrder("verify", last.req) \in DOMAIN orders
    /\ orders[NamedOrder("verify", last.req)].status = "pending"
    /\ \E p \in PaymentIds \ {last.req.paymentId} :
          last.req.signature = HMAC(secret, last.req.orderId \o "|" \o p)

\* C5: a webhook request changes the orders table only when its event is
\* 'payment_link.paid' and notes.order_id is present: then exactly the order
\* with that id gets status 'completed' and payment_id = payload.payment.id;
\* any other event, or a paid event without order id, leaves every row as it was.
C5_WebhookFrame ==
    [][last'.route = "webhook" =>
          IF last'.status = 200 /\ AsksCompletion("webhook", last'.req)
          THEN /\ DOMAIN orders' = DOMAIN orders
               /\ \A id \in DOMAIN orders :
                    IF id = NamedOrder("webhook", last'.req)
                    THEN CompletedFrom(orders'[id], orders[id], last'.req.payment_id)
                    ELSE orders'[id] = orders[id]
          ELSE orders' = orders]_vars

\* a paid event has completed its order while another order stays pending
C5_Witness ==
    /\ last.route = "webhook" /\ last.status = 200
    /\ AsksCompletion("webhook", last.req)
    /\ NamedOrder("webhook", last.req) \in DOMAIN orders
    /\ orders[NamedOrder("webhook", last.req)].payment_id = "pay_b"
    /\ \E id \in DOMAIN orders : orders[id].status = "pending"

\* C6: the webhook answers 200 {status:'ok'} exactly when no exception was
\* caught, and 500 exactly when one was; events of another type and paid
\* events without order id raise none, and a paid event whose order id matches
\* no row is answered 200 like one that matches.
C6_WebhookResponses ==
    last.route = "webhook" =>
        /\ last.status \in {200, 500}
        /\ last.status = 200 <=> ~last.caught
        /\ last.status = 200 => last.body = [status |-> "ok"]
        /\ last.req.event # "payment_link.paid" => last.status = 200
        /\ (/\ last.req.event = "payment_link.paid"
            /\ last.req.has_payload /\ last.req.has_payment_link
            /\ (~last.req.has_notes \/ last.req.order_id = NULL)) => last.status = 200

\* 200 for a paid event naming an order that does not exist
C6_Witness ==
    /\ last.route = "webhook" /\ last.status = 200
    /\ AsksCompletion("webhook", last.req)
    /\ NamedOrder("webhook", last.req) \notin DOMAIN orders

C8_AlwaysRedirects ==
    [][/\ last'.route = "payment-success" =>
            /\ last'.status = 302
            /\ last'.body.payment \in {"success", "failed", "error"}
            /\ last'.body.payment = "error" <=> last'.caught
            /\ last'.caught => orders' = orders
            /\ (pool = "null" /\ AsksCompletion("payment-success", last'.req))
                  => last'.body.payment = "error"
       /\ \A i \in Slots :
            (inflight[i].route = "payment-success" /\ inflight'[i] # inflight[i])
                => /\ last'.route = "payment-success"
                   /\ last'.req = inflight[i].req]_vars

\* the query of a paid redirect for an existing pending order was rejected
C8_Witness ==
    /\ last.route = "payment-success" /\ last.body.payment = "error"
    /\ pool = "up"
    /\ NamedOrder("payment-success", last.req) \in DOMAIN orders
    /\ orders[NamedOrder("payment-success", last.req)].status = "pending"

\* C9: with up to three completion requests suspended for the same order, in
\* any order of their store updates, each request whose UPDATE the store runs
\* is answered with success and leaves the order 'completed' with the payment
\* id that request carried, whatever the status and payment id were before
\* (no channel reads them); a request's UPDATE fails only by a store error,
\* which changes nothing.
C9_LastWriterWins ==
    [][\A i \in Slots :
          (inflight[i] # Idle /\ inflight'[i] = Idle) =>
             \/ /\ ReportsCompletion(last')
                /\ last'.req = inflight[i].req
                /\ orders'[1].status = "completed"
                /\ orders'[1].payment_id = GivenPaymentId(inflight[i].route, inflight[i].req)
             \/ /\ last'.caught
                /\ last'.req = inflight[i].req
                /\ orders' = orders]_vars

\* the webhook's update is applied while a verify and a redirect request for
\* the same order are suspended, after an earlier channel completed the order
\* with another payment id
C9_Witness ==
    /\ last.route = "webhook" /\ ReportsCompletion(last)
    /\ \E i \in Slots : inflight[i].route = "verify"
    /\ \E i \in Slots : inflight[i].route = "payment-success"
    /\ orders[1].status = "completed"
    /\ orders[1].payment_id = last.req.payment_id

\* C10: a completion of an order that is already 'completed', by any channel,
\* leaves each of its fields as it was except payment_id, which becomes the
\* identifier of the later request; with the same identifier the whole table
\* is as it was.
C10_Recompletion ==
    [][\A id \in DOMAIN orders :
          orders[id].status = "completed" =>
             /\ id \in DOMAIN orders'
             /\ \A f \in OrderFields \ {"payment_id"} : orders'[id][f] = orders[id][f]
             /\ (ReportsCompletion(last') /\ NamedOrder(last'.route, last'.req) = id)
                   => /\ orders'[id].payment_id = GivenPaymentId(last'.route, last'.req)
                      /\ (GivenPaymentId(last'.route, last'.req) = orders[id].payment_id
                             => orders' = orders)
             /\ orders'[id].payment_id # orders[id].payment_id
                   => (ReportsCompletion(last') /\ NamedOrder(last'.route, last'.req) = id)]_vars

\* an order that was 'completed' with payment id pay_b has been completed
\* again by a verify request carrying pay_a
C10_Witness ==
    /\ last.route = "verify" /\ last.status = 200
    /\ last.req.paymentId = "pay_a"
    /\ orders[1].status = "completed"
    /\ orders[1].payment_id = "pay_a"

\* the handler of slot i runs in this step
Steps(i) == inflight[i].route = "orders" /\ inflight'[i] # inflight[i]

\* C11: with a provider configured, a rejected payment-link call is followed
\* directly by the COMMIT (the call is made once, after the INSERT, and is not
\* repeated); the commit then answers 200 with paymentLink and razorpayOrderId
\* null and testMode false, and the row it persists is 'pending' with
\* payment_id null (unless the store rejects the COMMIT itself).
C11_ProviderFailureDegrades ==
    [][\A i \in Slots :
          /\ (Steps(i) /\ inflight[i].pc = "paymentLink") =>
                \/ /\ inflight'[i].route = "orders" /\ inflight'[i].pc = "UPDATE"
                   /\ inflight'[i].paymentLink # NULL
                \/ inflight'[i] = [inflight[i] EXCEPT !.pc = "COMMIT"]
          /\ (inflight'[i].route = "orders" /\ inflight'[i].pc = "paymentLink"
              /\ inflight'[i] # inflight[i]) =>
                /\ inflight[i].route = "orders" /\ inflight[i].pc = "INSERT"
                /\ razorpay
          /\ (Steps(i) /\ razorpay /\ inflight[i].pc = "COMMIT"
              /\ inflight[i].paymentLink = NULL) =>
                \/ /\ last'.route = "orders" /\ last'.status = 200 /\ ~last'.caught
                   /\ last'.req = inflight[i].req
                   /\ last'.body.orderId = inflight[i].id
                   /\ last'.body.paymentLink = NULL
                   /\ last'.body.razorpayOrderId = NULL
                   /\ last'.body.testMode = FALSE
                   /\ DOMAIN orders' = DOMAIN orders \cup {inflight[i].id}
                   /\ orders'[inflight[i].id].status = "pending"
                   /\ orders'[inflight[i].id].payment_id = NULL
                   /\ inflight'[i] = Idle
                \/ /\ inflight'[i].route = "orders" /\ inflight'[i].pc = "ROLLBACK"
                   /\ orders' = orders]_vars

\* the 200 of a request whose provider call was rejected
C11_Witness ==
    /\ razorpay
    /\ last.route = "orders" /\ last.status = 200
    /\ last.body.paymentLink = NULL /\ last.body.testMode = FALSE
    /\ last.body.orderId \in DOMAIN orders
    /\ orders[last.body.orderId].status = "pending"
    /\ orders[last.body.orderId].payment_id = NULL

\* C12: without a provider client (key id or secret absent or a placeholder, or
\* the constructor threw) no request ever waits for a provider call or for the
\* query storing a payment reference, and a valid request that the store
\* serves is answered 200 with testMode true, paymentLink null and the id of a
\* row that is now in the store with status 'pending' and payment_id null.
C12_TestMode ==
    [][~razorpay =>
          /\ \A i \in Slots :
                inflight'[i].route = "orders" => inflight'[i].pc \notin {"paymentLink", "UPDATE"}
          /\ (last'.route = "orders" /\ ValidationErrors(last'.req) = {}) =>
                /\ last'.status = 200 \/ last'.caught \/ pool = "null"
                /\ last'.status = 200 =>
                      /\ last'.body.testMode = TRUE
                      /\ last'.body.paymentLink = NULL
                      /\ last'.body.razorpayOrderId = NULL
                      /\ last'.body.orderId \notin DOMAIN orders
                      /\ last'.body.orderId \in DOMAIN orders'
                      /\ orders'[last'.body.orderId].status = "pending"
                      /\ orders'[last'.body.orderId].payment_id = NULL
                      /\ orders'[last'.body.orderId].customer_name = last'.req.name]_vars

\* a test-mode 200 with the secret left at its placeholder value
C12_Witness ==
    /\ ~razorpay /\ secret = "your_key_secret"
    /\ last.route = "orders" /\ last.status = 200
    /\ last.body.testMode = TRUE /\ last.body.paymentLink = NULL
    /\ last.body.orderId \in DOMAIN orders
    /\ orders[last.body.orderId].status = "pending"

\* C13 as claimed: after a crash that interrupts a creation between the
\* provider call and the query storing the payment reference, the store holds
\* that order with status 'pending' and payment_id null.
C13_CrashLeavesPending ==
    last.route = "crash" =>
        \A r \in last.interrupted :
            (r.route = "orders" /\ r.pc \in {"paymentLink", "UPDATE"}) =>
                /\ r.id \in DOMAIN orders
                /\ orders[r.id].status = "pending"
                /\ orders[r.id].payment_id = NULL

\* C13: a creation interrupted before its COMMIT (by a crash, or by a store
\* error that aborts its transaction) leaves no row in the store: the crash
\* changes no table, the interrupted request's id is not the id of any row
\* although the sequence has handed it out, and a request whose transaction
\* is aborted adds no row whatever it answers.
C13_CrashLeavesNoRow ==
    [][/\ last'.route = "crash" =>
            /\ orders' = orders
            /\ \A r \in last'.interrupted :
                  r.route = "orders" =>
                     /\ r.id \notin DOMAIN orders'
                     /\ r.pc \in {"paymentLink", "UPDATE", "COMMIT"} =>
                           (r.id >= 1 /\ r.id <= orders_id_seq')
       /\ \A i \in Slots :
            (Steps(i) /\ inflight[i].tx = "aborted") => orders' = orders]_vars

\* the process died while a creation waited for the query storing its
\* payment reference
C13_Witness ==
    /\ last.route = "crash"
    /\ \E r \in last.interrupted :
          /\ r.route = "orders" /\ r.pc = "UPDATE"
          /\ r.razorpayOrderId # NULL
          /\ r.id \notin DOMAIN orders
          /\ r.id <= orders_id_seq

\* the fields of a POST /api/orders body that break a precondition
ViolatedFields(body) ==
    {f \in {"name", "email", "phone", "package", "price"} :
        \/ f = "name" /\ (Len(body.name) < 2 \/ Len(body.name) > 100)
        \/ f = "email" /\ body.email \notin WellFormedEmails
        \/ f = "phone" /\ body.phone \notin MatchingPhones
        \/ f = "package" /\ body.package \notin {"Professional", "Executive", "Leadership"}
        \/ f = "price" /\ ~(body.price > 0)}

\* C14: a POST /api/orders whose body breaks a precondition is answered at
\* once with 400 and the list of the offending fields (503 when there is no
\* pool); the step changes no table, takes no connection and suspends
\* nothing, and no suspended creation ever carries such a body, so none
\* reaches pool.connect(), the INSERT or the provider call.
C14_ValidationRejects ==
    [][/\ (last'.route = "orders" /\ ViolatedFields(last'.req) # {}) =>
            /\ last'.status = IF pool = "null" THEN 503 ELSE 400
            /\ last'.status = 400 =>
                  /\ last'.body.code = "VALIDATION_ERROR"
                  /\ last'.body.details = ViolatedFields(last'.req)
            /\ orders' = orders /\ orders_id_seq' = orders_id_seq
            /\ checkedOut' = checkedOut /\ inflight' = inflight
       /\ \A i \in Slots :
            inflight'[i].route = "orders" => ViolatedFields(inflight'[i].req) = {}]_vars

\* a 400 for a price of zero while another, valid request is suspended
C14_Witness ==
    /\ last.route = "orders" /\ last.status = 400
    /\ last.body.details = {"price"}
    /\ \E i \in Slots : inflight[i].route = "orders"

\* the store rejects the query slot i waits for in this step
QueryFails(i) ==
    /\ Steps(i)
    /\ inflight[i].pc \in {"BEGIN", "INSERT", "UPDATE", "COMMIT"}
    /\ inflight'[i].route = "orders"
    /\ \/ inflight'[i].err # inflight[i].err
       \/ inflight'[i].tx = "aborted" /\ inflight[i].tx # "aborted"

\* C15 as claimed: when a query of the transaction (BEGIN, INSERT, the UPDATE
\* of payment_id, COMMIT) raises an error the handler issues ROLLBACK next;
\* the request is then answered 500 (409 for a unique violation) and never
\* 200, and no row of it is in the store.
C15_QueryErrorRollsBack ==
    [][\A i \in Slots :
          /\ QueryFails(i) => inflight'[i].pc = "ROLLBACK"
          /\ (Steps(i) /\ inflight[i].pc = "ROLLBACK") =>
                /\ last'.route = "orders"
                /\ \/ last'.status = 500
                   \/ last'.status = 409 /\ inflight[i].err = "23505"
                /\ orders' = orders
                /\ inflight[i].id \notin DOMAIN orders'
          /\ (Steps(i) /\ inflight[i].tx = "aborted") =>
                ~(last'.route = "orders" /\ last'.status = 200)]_vars

\* C16: the number of clients checked out of the pool equals the number of
\* suspended creations that are past pool.connect(); a creation gives its
\* client back in the very step in which it answers, once, and only from the
\* COMMIT or the ROLLBACK it has issued on it; a creation that never got a
\* client gives none back. Hence no client is out when no creation is suspended.
HoldsClient(r) == r.route = "orders" /\ r.pc # "connect"

C16_ReleasedOnce ==
    [][/\ checkedOut' = Cardinality({i \in Slots : HoldsClient(inflight'[i])})
       /\ \A i \in Slots :
            /\ (Steps(i) /\ inflight'[i] = Idle) =>
                  /\ last'.route = "orders" /\ last'.req = inflight[i].req
                  /\ inflight[i].pc \in {"connect", "COMMIT", "ROLLBACK"}
                  /\ checkedOut' = checkedOut - (IF HoldsClient(inflight[i]) THEN 1 ELSE 0)
            /\ (Steps(i) /\ HoldsClient(inflight[i]) /\ inflight'[i] # Idle) =>
                  /\ HoldsClient(inflight'[i])
                  /\ checkedOut' = checkedOut]_vars

\* a creation that inserted its row has been rolled back and answered, and
\* every client is back in the pool
C16_Witness ==
    /\ last.route = "orders" /\ last.status \in {409, 500}
    /\ orders_id_seq > Cardinality(DOMAIN orders)
    /\ \A i \in Slots : inflight[i] = Idle
    /\ checkedOut = 0

\* C17: a list of packages or speakers, public or admin, answers with
\* exactly the rows of its table whose is_active is true, each once and as
\* stored, in ascending display_order, rows of equal display_order in
\* ascending id.
ListRoutes ==
    {"GET /api/packages", "GET /api/speakers",
     "GET /api/admin/packages", "GET /api/admin/speakers"}

ListedTable(route) ==
    IF route \in {"GET /api/packages", "GET /api/admin/packages"}
    THEN "event_packages" ELSE "speakers"

C17_ListsActiveInOrder ==
    (last.route \in ListRoutes /\ last.status = 200) =>
        LET rows == tables[ListedTable(last.route)]
            list == last.body
        IN  /\ \A k \in DOMAIN list :
                  /\ list[k].id \in DOMAIN rows
                  /\ list[k] = Selected(rows, list[k].id)
                  /\ list[k].is_active
            /\ \A i \in DOMAIN rows :
                  rows[i].is_active => \E k \in DOMAIN list : list[k].id = i
            /\ \A j, k \in DOMAIN list :
                  j < k => \/ list[j].display_order < list[k].display_order
                           \/ /\ list[j].display_order = list[k].display_order
                              /\ list[j].id < list[k].id

\* the public list of packages answers with two rows of equal display_order
\* while the speakers table holds a soft-deleted row
C17_Witness ==
    /\ last.route = "GET /api/packages" /\ last.status = 200
    /\ Len(last.body) = 2
    /\ last.body[1].display_order = last.body[2].display_order
    /\ \E i \in DOMAIN tables["speakers"] : ~tables["speakers"][i].is_active

\* C18: no step removes a row of event_packages or speakers; a delete
\* request changes nothing but is_active of the row with the given id, which
\* becomes false when the request is answered 200, and changes nothing at all
\* otherwise.
DeleteRoutes == {"DELETE /api/admin/packages/:id", "DELETE /api/admin/speakers/:id"}

DeletedTable(route) ==
    IF route = "DELETE /api/admin/packages/:id" THEN "event_packages" ELSE "speakers"

C18_DeleteKeepsRows ==
    [][/\ \A t \in Kinds : DOMAIN tables[t] \subseteq DOMAIN tables'[t]
       /\ last'.route \in DeleteRoutes =>
            LET t == DeletedTable(last'.route)
            IN  /\ \A u \in TableNames \ {t} : tables'[u] = tables[u]
                /\ serial' = serial
                /\ DOMAIN tables'[t] = DOMAIN tables[t]
                /\ \A i \in DOMAIN tables[t] :
                      IF last'.status = 200 /\ ToString(i) = last'.req.id
                      THEN tables'[t][i] = [tables[t][i] EXCEPT !.is_active = FALSE]
                      ELSE tables'[t][i] = tables[t][i]]_vars

\* a delete of a package was answered 200: its row is still there, inactive,
\* with the profile an update gave it, next to another row that is active
C18_Witness ==
    /\ last.route = "DELETE /api/admin/packages/:id" /\ last.status = 200
    /\ \E i, j \in DOMAIN tables["event_packages"] :
          /\ ToString(i) = last.req.id
          /\ ~tables["event_packages"][i].is_active
          /\ tables["event_packages"][i].profile = "p2"
          /\ j # i
          /\ tables["event_packages"][j].is_active

\* C19: the row a create request inserts has display_order 1 + the largest
\* display_order of the rows in the table at the moment of the INSERT (1 when
\* the table is empty), hence greater than the display_order of every other
\* row, also when another create request is in progress.
CreateRoutes == {"POST /api/admin/packages", "POST /api/admin/speakers"}

CreatedTable(route) ==
    IF route = "POST /api/admin/packages" THEN "event_packages" ELSE "speakers"

C19_CreateAppends ==
    [][(last'.route \in CreateRoutes /\ last'.status = 200) =>
          LET present == tables[CreatedTable(last'.route)]
              new == tables'[CreatedTable(last'.route)][last'.body.id]
          IN  /\ last'.body.id \notin DOMAIN present
              /\ new.display_order =
                    IF DOMAIN present = {} THEN 1
                    ELSE 1 + Max({present[i].display_order : i \in DOMAIN present})
              /\ \A i \in DOMAIN present :
                    new.display_order > present[i].display_order]_vars

\* C20: on every admin route behind the gate, a request whose token is
\* missing, forged or expired is answered 401 in the step it arrives, with
\* no query issued and the store as it was; a handler is suspended at a query
\* only for a request whose token verified on arrival; and the store changes
\* only in the step of a request whose token verifies or in a later step of
\* a handler admitted that way.
GatedRoutes ==
    {"GET /api/admin/check-auth", "GET /api/admin/stats", "GET /api/admin/orders",
     "PUT /api/admin/event", "GET /api/admin/content", "PUT /api/admin/content/:section",
     "GET /api/admin/packages", "POST /api/admin/packages", "PUT /api/admin/packages/:id",
     "DELETE /api/admin/packages/:id", "PUT /api/admin/packages/:id/order",
     "GET /api/admin/speakers", "POST /api/admin/speakers", "PUT /api/admin/speakers/:id",
     "DELETE /api/admin/speakers/:id", "PUT /api/admin/speakers/:id/order",
     "GET /api/admin/contact-forms", "GET /api/admin/contact-forms/export",
     "DELETE /api/admin/contact-forms/:id", "GET /api/admin/contact-info",
     "PUT /api/admin/contact-info"}

\* the step answers a request in the turn in which it arrived
AnswersArrival == last'.route \in GatedRoutes /\ inflight' = inflight

C20_GateBeforeStore ==
    [][/\ (AnswersArrival /\ ~Authenticated(last'.req.token)) =>
            /\ last'.status = 401
            /\ tables' = tables /\ serial' = serial
            /\ orders' = orders /\ orders_id_seq' = orders_id_seq
       /\ \A i \in Slots :
            (inflight[i] = Idle /\ inflight'[i] # Idle) =>
                Authenticated(inflight'[i].req.token)
       /\ (tables' # tables \/ serial' # serial) =>
            \/ AnswersArrival /\ Authenticated(last'.req.token)
            \/ \E i \in Slots : inflight[i] # Idle /\ inflight'[i] = Idle]_vars

\* a delete of the stored contact form with a genuine token that has expired
\* was answered 401 and the form is still in the store
C20_Witness ==
    /\ last.route = "DELETE /api/admin/contact-forms/:id" /\ last.status = 401
    /\ last.req.token # NoToken
    /\ last.req.token.key = jwtSecret
    /\ now >= last.req.token.exp
    /\ last.req.id = "1"
    /\ 1 \in DOMAIN tables["contact_forms"]

\* C23: after a PUT /api/admin/content/:section answered 200, exactly one
\* site_content row has that section and it holds the submitted fields; and
\* no step removes a site_content row.
C23_ContentUpserted ==
    [][/\ DOMAIN tables["site_content"] \subseteq DOMAIN tables'["site_content"]
       /\ (last'.route = "PUT /api/admin/content/:section" /\ last'.status = 200) =>
            LET rows == tables'["site_content"]
                found == {i \in DOMAIN rows : rows[i].section = last'.req.section}
            IN  /\ Cardinality(found) = 1
                /\ \A i \in found : rows[i].content = last'.req.body]_vars

\* C24: contact_info never holds more than one row with section 'main'; a
\* PUT /api/admin/contact-info answered 200 has inserted that row with the
\* submitted fields when the table held none, and has otherwise written the
\* submitted fields into the one row there was, adding none; an update that
\* is not answered 200 leaves the rows as they were.
C24_ContactInfoSingleton ==
    [][/\ Cardinality(MainInfo(tables["contact_info"])) <= 1
       /\ Cardinality(MainInfo(tables'["contact_info"])) <= 1
       /\ last'.route = "PUT /api/admin/contact-info" =>
            LET before == tables["contact_info"]
                after == tables'["contact_info"]
            IN  IF last'.status # 200 THEN after = before
                ELSE IF MainInfo(before) = {}
                THEN /\ Cardinality(DOMAIN after) = Cardinality(DOMAIN before) + 1
                     /\ \A i \in MainInfo(after) : after[i].info = last'.req.body
                     /\ MainInfo(after) # {}
                ELSE /\ DOMAIN after = DOMAIN before
                     /\ MainInfo(after) = MainInfo(before)
                     /\ \A i \in MainInfo(after) : after[i].info = last'.req.body]_vars

\* of two updates that both found no row, the first inserted the row and was
\* answered 200, the second was refused its INSERT and answered 500: one row
\* is there, holding the first update's fields, and two ids were taken
C24_Witness ==
    /\ last.route = "PUT /api/admin/contact-info" /\ last.status = 500
    /\ serial["contact_info"] = 2
    /\ Cardinality(DOMAIN tables["contact_info"]) = 1
    /\ \A i \in DOMAIN tables["contact_info"] :
          tables["contact_info"][i].info # last.req.body

\* C28: a POST /api/orders answered 200 names, as orderId, an order whose row
\* is in the store when the answer is sent.
C28_ResponseNamesCommittedRow ==
    (last.route = "orders" /\ last.status = 200) =>
        last.body.orderId \in DOMAIN orders

\* C29: every order with status 'completed' has a payment_id that is not
\* null.
C29_CompletedHasPaymentId ==
    \A id \in DOMAIN orders :
        orders[id].status = "completed" => orders[id].payment_id # NULL

\* C30: a package or speaker whose is_active is false keeps its row and stays
\* inactive in every later state, whatever request is served, and no list
\* answered in the step contains it.
C30_SoftDeletionPermanent ==
    [][\A t \in Kinds : \A i \in DOMAIN tables[t] :
          ~tables[t][i].is_active =>
              /\ i \in DOMAIN tables'[t]
              /\ ~tables'[t][i].is_active
              /\ (last'.route \in ListRoutes /\ last'.status = 200
                    /\ ListedTable(last'.route) = t) =>
                     \A k \in DOMAIN last'.body : last'.body[k].id # i]_vars

\* an update of a soft-deleted speaker was answered 200: the row took the
\* submitted profile and is still inactive
C30_Witness ==
    /\ last.route = "PUT /api/admin/speakers/:id" /\ last.status = 200
    /\ \E i \in DOMAIN tables["speakers"] :
          /\ ToString(i) = last.req.id
          /\ tables["speakers"][i].profile = last.req.profile
          /\ ~tables["speakers"][i].is_active

\* the columns an order row gets at creation from the request
CreationFields == {"customer_name", "customer_email", "customer_phone",
                   "package_name", "amount"}

CompletionRoutes == {"verify", "payment-success", "webhook"}

\* the step settles the UPDATE of a completion request that names order id
CompletionOf(id) ==
    \E i \in Slots :
        /\ inflight[i].route \in CompletionRoutes
        /\ inflight[i].pc = "query"
        /\ inflight'[i] = Idle
        /\ inflight[i].params.id = ToString(id)

\* C25: a committed order row is never deleted; its name, email, phone,
\* package and amount keep the values of its creation; a row changes only in
\* a step where the UPDATE of /api/verify-payment, /api/payment-success or
\* /api/razorpay-webhook naming that row settles, and such a step changes
\* only status and payment_id; no admin or content operation changes a row.
C25_OrderRowsFrame ==
    [][\A id \in DOMAIN orders :
          /\ id \in DOMAIN orders'
          /\ \A f \in CreationFields : orders'[id][f] = orders[id][f]
          /\ orders'[id] # orders[id] => CompletionOf(id)]_vars

\* order 1 has been completed, a second order has been committed, and the
\* administrator's order list has just been served: order 1 still carries
\* the values of its creation
C25_Witness ==
    /\ last.route = "GET /api/admin/orders"
    /\ last.status = 200
    /\ DOMAIN orders = {1, 2}
    /\ orders[1].status = "completed"
    /\ orders[1].payment_id \in {"pay_a", "pay_b"}
    /\ \A f \in CreationFields : orders[1][f] = NewOrderRow(BodyA)[f]

\* the state only the server holds: everything but the browser's cookie, the
\* response under way and the record of what was issued
ServerSide == <<config, orders, orders_id_seq, checkedOut, inflight, adminPool, jwtSecret,
                tables, serial, runtime>>

SessionRoutes == {"GET /api/admin/check-auth", "GET /api/admin/orders",
                  "GET /api/admin/content"}

\* C21: a token a successful login has answered with passes verifyAdminToken
\* at every moment before its expiry, whatever logouts have happened since: no
\* gated request carrying it is answered 401; and a logout changes nothing
\* the server holds.
C21_LogoutDoesNotRevoke ==
    /\ [](\A t \in issued : now < t.exp => Authenticated(t))
    /\ []((/\ last.route \in SessionRoutes
           /\ last.req.token \in issued
           /\ now < last.req.token.exp) => last.status # 401)
    /\ [][last'.route = "POST /api/admin/logout" => UNCHANGED <<ServerSide, now, issued>>]_vars

\* after a logout has cleared the browser's cookie, a gated route has just
\* answered 200 to a request carrying the token of the earlier login
C21_Witness ==
    /\ cookie = NoToken
    /\ last.route = "GET /api/admin/orders"
    /\ last.req.token \in issued
    /\ last.status = 200

\* connections the process holds open to the store for its request handlers
OpenConnections == connections["main"].open + connections["admin"].open

\* C26: the connections the process holds open for request handling never
\* number more than 20.
C26_AtMostTwentyConnections == OpenConnections <= 20

\* C27: the server listens only once initializeDatabase has resolved or
\* rejected, and by then the pool of initializeDatabase is closed, whichever
\* way it settled; and the server does come to listen in both cases.
C27_ListensAfterInitSettles ==
    /\ [](startup.listening =>
             startup.outcome \in {"resolved", "rejected"} /\ startup.initPool = "ended")
    /\ [](startup.outcome \in {"resolved", "rejected"} => startup.initPool = "ended")
    /\ <>startup.listening

\* degraded mode: the initialization has failed at the first seeding already,
\* its pool is closed, and the listening server has answered a request
C27_Witness ==
    /\ startup.listening
    /\ startup.outcome = "rejected"
    /\ startup.initPool = "ended"
    /\ tables["site_content"] = <<>>
    /\ last.route = "GET /api/admin/check-auth"

\* the answer of the limiter itself
IsRateLimitError(r) ==
    /\ r.route \in LimitedRoutes
    /\ r.status = 429
    /\ r.body.code = "RATE_LIMIT_EXCEEDED"

\* C22: a request is counted for its address alone; while the address has
\* fewer than 100 requests counted in the window, the request reaches its
\* handler, which answers for its route; from the 101st on the answer is the
\* RATE_LIMIT_EXCEEDED error whatever the route, and nothing but the count
\* changes; after the end of the window the count of the address is 0 again.
C22_LimiterAheadOfRoutes ==
    [][\A a \in Addresses :
          /\ hits'[a] = hits[a] + 1 =>
                /\ \A b \in Addresses \ {a} : hits'[b] = hits[b]
                /\ last'.route \in LimitedRoutes
                /\ hits[a] < RateLimitMax => ~IsRateLimitError(last')
                /\ hits[a] >= RateLimitMax =>
                      /\ IsRateLimitError(last')
                      /\ UNCHANGED <<ServerSide, now, session>>
          /\ hits'[a] < hits[a] => hits'[a] = 0]_vars

\* one address has been refused after its 100 requests, some of which wrote
\* the store, while the other address is still within its limit
C22_Witness ==
    /\ IsRateLimitError(last)
    /\ hits[last.req.ip] = RateLimitMax + 1
    /\ \E b \in Addresses : hits[b] \in 1..(RateLimitMax - 1)
    /\ tables["site_content"][1].content = "c2"

====
